---- MODULE Spec2Model ----
(***************************************************************************)
(* Document mutation pipeline of googleDocsResumeGenerator.ts              *)
(* (src/unnamed/part_000): removeEmptySections, doReplacePlaceholders,     *)
(* applyBoldMarkers, removeEmptyMarkers, removeEmptyBarLinesOneByOne and   *)
(* fixCompanyLocationBars, run against a remote offset-addressed document. *)
(*                                                                         *)
(* The remote document is one linear buffer of cells.  A cell holds one    *)
(* lexical unit of text (a word, a space, the bar glyph, a line            *)
(* terminator, "{{", "}}", a field name, a marker delimiter, the removal   *)
(* marker, a heading label), its bold flag, and the position it had in the *)
(* template (kept through edits, never read by the program).  Offsets      *)
(* count units; every literal the program searches for is a whole number   *)
(* of units, so offset arithmetic is the program's own.                    *)
(***************************************************************************)
EXTENDS Integers, Sequences, FiniteSets, TLC

VARIABLES
    doc,          \* the remote document (the store's state)
    snap,         \* the snapshot last returned by documents.get (local doc)
    pc,           \* where the pipeline is suspended (which await)
    structured,   \* replacePlaceholders' structuredData: given or omitted
    data,         \* the ResumeData record (read only when structured)
    flat,         \* FlattenedResumeData: field name -> value
    headingsList, \* headingsList argument (a sequence), or NoList
    secIdx,       \* removeEmptySections: position in RESUME_SECTIONS
    requests,     \* the batch about to be sent
    passCount,    \* applyBoldMarkers: passCount
    boldRequests, \* applyBoldMarkers: boldRequests
    chunkAt,      \* applyBoldMarkers: i of the chunk loop
    paragraphs,   \* removeEmptyBarLinesOneByOne: paragraphs (sorted)
    idx,          \* removeEmptyBarLinesOneByOne: idx
    failures,     \* number of remote calls that have failed so far
    budget,       \* number of remote calls the environment may fail
    log,          \* every remote call completed so far, in order
    doc0,         \* the document when the run started
    issued,       \* number of remote calls issued so far
    outcome       \* what testResumeGenerator returned, Pending, or NotDriven

vars == <<doc, snap, pc, structured, data, flat, headingsList, secIdx,
          requests, passCount, boldRequests, chunkAt, paragraphs, idx,
          failures, budget, log, doc0, issued, outcome>>

----------------------------------------------------------------------------
(* Bounds of the model *)

\* paragraphs in a template given to removeEmptySections
MaxPrunerParas == 4
\* paragraphs in a template given to doReplacePlaceholders
MaxResolverParas == 2
\* paragraphs in a template given to applyBoldMarkers
MaxStylerParas == 2
\* paragraphs in a template given to removeEmptyBarLinesOneByOne
MaxSweeperParas == 3
\* paragraphs in a template given to the whole pipeline
MaxPipelineParas == 2
\* remote calls that may fail in one run
MaxFailures == 1
\* remote calls that may fail in a run on a template of more than
\* MaxPasses marker spans
MaxFailuresLong == 0

----------------------------------------------------------------------------
(* Text *)

Tok(k, i) == [k |-> k, i |-> i]
NL  == Tok("nl", 0)
SP  == Tok("sp", 0)
BAR == Tok("bar", 0)
W(i) == Tok("w", i)
LB == Tok("lb", 0)
RB == Tok("rb", 0)
STAR == Tok("star", 0)
\* "##EMPTY_LINE_TO_REMOVE##"
RM == Tok("rm", 0)
\* "@@BOLD-<i>@@" and "@@BOLD-<i>-END@@"
OPEN(i) == Tok("open", i)
CLOSE(i) == Tok("close", i)
\* a field name: name and number (company_2 is KEY("company", 2),
\* experience_point_1_3 is KEY("experience_point", 13), name is KEY("name", 0))
KEY(name, i) == Tok(name, i)
\* a heading label in capitals, and the same label in mixed case
HD(i) == Tok("hd", i)
HDL(i) == Tok("hdl", i)

Undef == -1

Cell(t, b, o) == [t |-> t, b |-> b, o |-> o]

\* the text of a cell sequence
TextOf(cells) == [j \in 1..Len(cells) |-> cells[j].t]

Min(S) == CHOOSE x \in S : \A y \in S : x <= y
Max(S) == CHOOSE x \in S : \A y \in S : x >= y

RECURSIVE SortedSeq(_)
SortedSeq(S) ==
    IF S = {} THEN <<>> ELSE <<Min(S)>> \o SortedSeq(S \ {Min(S)})

RECURSIVE Concat(_)
Concat(ss) == IF ss = <<>> THEN <<>> ELSE Head(ss) \o Concat(Tail(ss))

IsWhite(t) == t.k \in {"sp", "nl"}

\* String.prototype.trim
RECURSIVE TrimLeft(_)
TrimLeft(s) ==
    IF s # <<>> /\ IsWhite(Head(s)) THEN TrimLeft(Tail(s)) ELSE s

RECURSIVE TrimRight(_)
TrimRight(s) ==
    IF s # <<>> /\ IsWhite(s[Len(s)])
    THEN TrimRight(SubSeq(s, 1, Len(s) - 1)) ELSE s

Trim(s) == TrimRight(TrimLeft(s))

\* String.prototype.toUpperCase
ToUpperCase(s) ==
    [j \in 1..Len(s) |-> IF s[j].k = "hdl" THEN HD(s[j].i) ELSE s[j]]

\* s occurs in t at position p (1-based)
OccursAt(s, t, p) ==
    /\ p >= 1
    /\ p + Len(s) - 1 <= Len(t)
    /\ \A j \in 1..Len(s) : t[p + j - 1] = s[j]

\* String.prototype.indexOf(s, from), 1-based, 0 when there is none
IndexOf(t, s, from) ==
    LET hits == {p \in from..(Len(t) - Len(s) + 1) : OccursAt(s, t, p)}
    IN  IF hits = {} THEN 0 ELSE Min(hits)

\* String.prototype.includes
Includes(t, s) == IndexOf(t, s, 1) # 0

----------------------------------------------------------------------------
(* The snapshot documents.get returns: body.content *)

\* The body begins with a section break occupying offset 0 (it has no
\* startIndex and no paragraph); the cell at position j has offset j.

ParaStarts(d) == {j \in 1..Len(d) : j = 1 \/ d[j - 1].t = NL}

ParaLast(d, s) ==
    LET ends == {j \in s..Len(d) : d[j].t = NL}
    IN  IF ends = {} THEN Len(d) ELSE Min(ends)

RunStarts(d, s, e) == {j \in s..e : j = s \/ d[j].b # d[j - 1].b}

RunLast(d, s, e) ==
    LET nxt == {j \in (s + 1)..e : d[j].b # d[j - 1].b}
    IN  IF nxt = {} THEN e ELSE Min(nxt) - 1

\* a ParagraphElement with a textRun
TextRun(d, s, e) ==
    [startIndex |-> s, endIndex |-> e + 1,
     content |-> [j \in 1..(e - s + 1) |-> d[s + j - 1].t],
     bold |-> d[s].b]

\* a StructuralElement holding a paragraph
Paragraph(d, s) ==
    LET e == ParaLast(d, s)
        rs == SortedSeq(RunStarts(d, s, e))
    IN  [kind |-> "paragraph", startIndex |-> s, endIndex |-> e + 1,
         elements |-> [r \in 1..Len(rs) |-> TextRun(d, rs[r], RunLast(d, rs[r], e))]]

SectionBreak ==
    [kind |-> "sectionBreak", startIndex |-> Undef, endIndex |-> 1,
     elements |-> <<>>]

\* doc.body.content of a snapshot
Content(d) ==
    LET ps == SortedSeq(ParaStarts(d))
    IN  <<SectionBreak>> \o [p \in 1..Len(ps) |-> Paragraph(d, ps[p])]

\* getParagraphText
getParagraphText(item) ==
    Concat([r \in 1..Len(item.elements) |-> item.elements[r].content])

----------------------------------------------------------------------------
(* The remote store: batchUpdate applies the requests of a batch in order *)

DeleteRange(s, e) == [op |-> "deleteContentRange", startIndex |-> s, endIndex |-> e]
ReplaceText(text, by) == [op |-> "replaceAllText", text |-> text, replaceText |-> by]
ApplyStyle(s, e) == [op |-> "updateTextStyle", startIndex |-> s, endIndex |-> e]

\* deleteContentRange: the cells at offsets s..e-1 go
ApplyDelete(d, s, e) ==
    [j \in 1..(Len(d) - Cardinality({k \in 1..Len(d) : s <= k /\ k < e})) |->
        IF j < s THEN d[j] ELSE d[j + Cardinality({k \in 1..Len(d) : s <= k /\ k < e})]]

\* updateTextStyle {bold: true}, fields "bold"
ApplyBold(d, s, e) ==
    [j \in 1..Len(d) |->
        IF s <= j /\ j < e THEN [d[j] EXCEPT !.b = TRUE] ELSE d[j]]

\* the starts of the occurrences of text in t from position from on, left
\* to right, not overlapping
RECURSIVE matchStarts(_, _, _)
matchStarts(t, text, from) ==
    LET pos == IndexOf(t, text, from)
    IN  IF text = <<>> \/ pos = 0 THEN <<>>
        ELSE <<pos>> \o matchStarts(t, text, pos + Len(text))

\* replaceAllText, matchCase: every occurrence is replaced; the inserted
\* text takes the style (and the template position) of the first cell it
\* replaces
ApplyReplace(d, text, by) ==
    LET at == matchStarts(TextOf(d), text, 1)
        n == Len(at)
        \* the cells kept before occurrence i (after the last one for n + 1)
        gap(i) == SubSeq(d, IF i = 1 THEN 1 ELSE at[i - 1] + Len(text),
                            IF i = n + 1 THEN Len(d) ELSE at[i] - 1)
        put(i) == [j \in 1..Len(by) |-> Cell(by[j], d[at[i]].b, d[at[i]].o)]
    IN  Concat([i \in 1..(2 * n + 1) |->
                    IF i % 2 = 1 THEN gap((i + 1) \div 2) ELSE put(i \div 2)])

ApplyRequest(d, r) ==
    CASE r.op = "deleteContentRange" -> ApplyDelete(d, r.startIndex, r.endIndex)
      [] r.op = "updateTextStyle" -> ApplyBold(d, r.startIndex, r.endIndex)
      [] r.op = "replaceAllText" -> ApplyReplace(d, r.text, r.replaceText)

RECURSIVE ApplyBatch(_, _)
ApplyBatch(d, reqs) ==
    IF reqs = <<>> THEN d
    ELSE ApplyBatch(ApplyRequest(d, Head(reqs)), Tail(reqs))

----------------------------------------------------------------------------
(* Remote calls *)

NoList == <<"omitted">>

GetCall(at) == [call |-> "get", at |-> at, requests |-> <<>>, ok |-> TRUE]
BatchCall(at, reqs, ok) ==
    [call |-> "batchUpdate", at |-> at, requests |-> reqs, ok |-> ok]

CanFail == failures < budget

\* the run was not started by testResumeGenerator / has not returned yet
NotDriven == [state |-> "not driven"]
Pending == [state |-> "pending"]

\* the positions that are an await of a remote call: arriving there issues it
Terminated == {"done", "threw", "returned"}

\* Issue with the style chunks sent two at a time
Issue_chunksInPairs(p) ==
    IF p \in Terminated THEN 0 ELSE IF p = "applyBoldMarkers.chunk" THEN 2 ELSE 1

Issue(p) == IF p \in Terminated THEN 0 ELSE 1

----------------------------------------------------------------------------
(* RESUME_SECTIONS, getAllHeadings, buildHeadingsListFromData *)

RESUME_SECTIONS == <<HD(1), HD(2), HD(3), HD(4), HD(5)>>

NumSections == Len(RESUME_SECTIONS)

getAllHeadings == {<<RESUME_SECTIONS[i]>> : i \in 1..NumSections}

\* RESUME_SECTIONS[i].dataCheck(dat)
dataCheck(i, dat) ==
    CASE i = 1 -> Len(dat.experience) > 0
      [] i = 2 -> Len(dat.projects) > 0
      [] i = 3 -> Len(dat.education) > 0
      [] i = 4 -> Trim(dat.languageSkills) # <<>>
      [] i = 5 -> Trim(dat.technicalSkills) # <<>>

\* buildHeadingsListFromData without the filter
buildHeadingsListFromData_all(dat) ==
    [j \in 1..NumSections |-> <<RESUME_SECTIONS[j]>>]

buildHeadingsListFromData(dat) ==
    LET keep == SortedSeq({i \in 1..NumSections : dataCheck(i, dat)})
    IN  [j \in 1..Len(keep) |-> <<RESUME_SECTIONS[keep[j]]>>]

\* trimmed, upper-cased paragraph text
lineText(item) == ToUpperCase(Trim(getParagraphText(item)))

----------------------------------------------------------------------------
(* removeEmptySections / removeSection *)

\* removeSection: "find the heading line"; 0 when there is none
findHeadingLine(content, heading) ==
    LET hits == {i \in 1..Len(content) : lineText(content[i]) = ToUpperCase(heading)}
    IN  IF hits = {} THEN 0 ELSE Min(hits)

\* findSectionEnd with endIdx = j instead of j - 1
findSectionEnd_takesNextHeading(content, startIdx, heading) ==
    LET stops == {j \in (startIdx + 1)..Len(content) :
                    /\ lineText(content[j]) \in getAllHeadings
                    /\ lineText(content[j]) # ToUpperCase(heading)}
    IN  IF stops = {} THEN Len(content) ELSE Min(stops)

\* removeSection: "find next heading or doc end"
findSectionEnd(content, startIdx, heading) ==
    LET stops == {j \in (startIdx + 1)..Len(content) :
                    /\ lineText(content[j]) \in getAllHeadings
                    /\ lineText(content[j]) # ToUpperCase(heading)}
    IN  IF stops = {} THEN Len(content) ELSE Min(stops) - 1

\* !item?.startIndex
Falsy(x) == x = Undef \/ x = 0

\* removeSectionRequests ending the range where the last block starts
removeSectionRequests_endAtStart(content, heading) ==
    LET startIdx == findHeadingLine(content, heading)
    IN  IF startIdx = 0 THEN <<>>
        ELSE LET endIdx == findSectionEnd(content, startIdx, heading)
                 startItem == content[startIdx]
                 endItem == content[endIdx]
             IN  IF Falsy(startItem.startIndex) \/ Falsy(endItem.endIndex)
                 THEN <<>>
                 ELSE <<DeleteRange(startItem.startIndex, endItem.startIndex)>>

\* the requests removeSection builds from a snapshot (none: heading not
\* found, or invalid range)
removeSectionRequests(content, heading) ==
    LET startIdx == findHeadingLine(content, heading)
    IN  IF startIdx = 0 THEN <<>>
        ELSE LET endIdx == findSectionEnd(content, startIdx, heading)
                 startItem == content[startIdx]
                 endItem == content[endIdx]
             IN  IF Falsy(startItem.startIndex) \/ Falsy(endItem.endIndex)
                 THEN <<>>
                 ELSE <<DeleteRange(startItem.startIndex, endItem.endIndex)>>

\* where replacePlaceholders suspends once removeEmptySections has dealt with
\* sections 1..i
AfterSection(i) ==
    LET rest == IF structured
                THEN {j \in (i + 1)..NumSections : ~dataCheck(j, data)}
                ELSE {}
    IN  IF rest # {}
        THEN [pc |-> "removeSection.get", secIdx |-> Min(rest)]
        ELSE [pc |-> "doReplacePlaceholders.get", secIdx |-> NumSections + 1]

\* RemoveSectionGet leaving removeEmptySections at the first section that
\* yields no request
RemoveSectionGet_stopsWhenNotFound ==
    /\ pc = "removeSection.get"
    /\ snap' = doc
    /\ log' = Append(log, GetCall(pc))
    /\ LET reqs == removeSectionRequests(Content(doc), <<RESUME_SECTIONS[secIdx]>>)
       IN  /\ requests' = reqs
           /\ IF reqs = <<>>
              THEN /\ pc' = "doReplacePlaceholders.get"
                   /\ secIdx' = NumSections + 1
              ELSE /\ pc' = "removeSection.batchUpdate"
                   /\ secIdx' = secIdx
    /\ UNCHANGED <<doc, structured, data, flat, headingsList, passCount,
                   boldRequests, chunkAt, paragraphs, idx, failures, budget, doc0, outcome>>
    /\ issued' = issued + Issue(pc')

RemoveSectionGet ==
    /\ pc = "removeSection.get"
    /\ snap' = doc
    /\ log' = Append(log, GetCall(pc))
    /\ LET reqs == removeSectionRequests(Content(doc), <<RESUME_SECTIONS[secIdx]>>)
       IN  /\ requests' = reqs
           /\ IF reqs = <<>>
              THEN /\ pc' = AfterSection(secIdx).pc
                   /\ secIdx' = AfterSection(secIdx).secIdx
              ELSE /\ pc' = "removeSection.batchUpdate"
                   /\ secIdx' = secIdx
    /\ UNCHANGED <<doc, structured, data, flat, headingsList, passCount,
                   boldRequests, chunkAt, paragraphs, idx, failures, budget, doc0, outcome>>
    /\ issued' = issued + Issue(pc')

RemoveSectionBatchOk ==
    /\ pc = "removeSection.batchUpdate"
    /\ doc' = ApplyBatch(doc, requests)
    /\ log' = Append(log, BatchCall(pc, requests, TRUE))
    /\ pc' = AfterSection(secIdx).pc
    /\ secIdx' = AfterSection(secIdx).secIdx
    /\ UNCHANGED <<snap, structured, data, flat, headingsList, requests,
                   passCount, boldRequests, chunkAt, paragraphs, idx, failures,
                   budget, doc0, outcome>>
    /\ issued' = issued + Issue(pc')

\* the catch of removeSection: warn and return
RemoveSectionBatchFails ==
    /\ pc = "removeSection.batchUpdate"
    /\ CanFail
    /\ failures' = failures + 1
    /\ log' = Append(log, BatchCall(pc, requests, FALSE))
    /\ pc' = AfterSection(secIdx).pc
    /\ secIdx' = AfterSection(secIdx).secIdx
    /\ UNCHANGED <<doc, snap, structured, data, flat, headingsList, requests,
                   passCount, boldRequests, chunkAt, paragraphs, idx, budget, doc0, outcome>>
    /\ issued' = issued + Issue(pc')

\* documents.get rejects: no stage catches it
GetPcs ==
    {"removeSection.get", "doReplacePlaceholders.get", "applyBoldMarkers.get",
     "applyBoldMarkers.get2", "applyBoldMarkers.get3", "removeEmptyBarLines.get",
     "removeEmptyBarLines.get2"}

GetFails ==
    /\ pc \in GetPcs
    /\ CanFail
    /\ failures' = failures + 1
    /\ log' = Append(log, [GetCall(pc) EXCEPT !.ok = FALSE])
    /\ pc' = "threw"
    /\ UNCHANGED <<doc, snap, structured, data, flat, headingsList, secIdx,
                   requests, passCount, boldRequests, chunkAt, paragraphs, idx,
                   budget, doc0, outcome>>
    /\ issued' = issued + Issue(pc')

----------------------------------------------------------------------------
(* fixCompanyLocationBars: the requests (built before its only await) *)

\* the two loops for (let i = 1; i <= 5; i++)
FixerPairs ==
    [i \in 1..5 |-> <<KEY("company", i), KEY("company_location", i)>>]
    \o [i \in 1..5 |-> <<KEY("institution", i), KEY("degree", i)>>]

\* fl[name], with undefined read as ""
Field(fl, name) == IF name \in DOMAIN fl THEN fl[name] ELSE <<>>

\* fixerRequests asking for one value of the pair only (c || loc)
fixerRequests_eitherValue(fl) ==
    LET both == {n \in 1..Len(FixerPairs) :
                    \/ Field(fl, FixerPairs[n][1]) # <<>>
                    \/ Field(fl, FixerPairs[n][2]) # <<>>}
        order == SortedSeq(both)
    IN  [n \in 1..Len(order) |->
            LET c == Field(fl, FixerPairs[order[n]][1])
                loc == Field(fl, FixerPairs[order[n]][2])
            IN  ReplaceText(c \o <<SP>> \o loc, c \o <<SP, BAR, SP>> \o loc)]

fixerRequests(fl) ==
    LET both == {n \in 1..Len(FixerPairs) :
                    /\ Field(fl, FixerPairs[n][1]) # <<>>
                    /\ Field(fl, FixerPairs[n][2]) # <<>>}
        order == SortedSeq(both)
    IN  [n \in 1..Len(order) |->
            LET c == Field(fl, FixerPairs[order[n]][1])
                loc == Field(fl, FixerPairs[order[n]][2])
            IN  ReplaceText(c \o <<SP>> \o loc, c \o <<SP, BAR, SP>> \o loc)]

\* where replacePlaceholders suspends on entering fixCompanyLocationBars
FixerEntry ==
    IF fixerRequests(flat) = <<>>
    THEN [pc |-> "done", requests |-> <<>>]
    ELSE [pc |-> "fixCompanyLocationBars.batchUpdate", requests |-> fixerRequests(flat)]

\* where it suspends after removeEmptyMarkers: step 5 runs if (headingsList)
\* AfterMarkers going back to applyBoldMarkers
AfterMarkers_backToStyler ==
    [pc |-> "applyBoldMarkers.get", requests |-> <<>>]

\* AfterMarkers without the test if (headingsList)
AfterMarkers_alwaysSweeps ==
    [pc |-> "removeEmptyBarLines.get", requests |-> <<>>]

\* AfterMarkers entering the sweep at its delete, without a read
AfterMarkers_sweepWithoutRead ==
    IF headingsList # NoList
    THEN [pc |-> "removeEmptyBarLines.batchUpdate", requests |-> <<>>]
    ELSE FixerEntry

AfterMarkers ==
    IF headingsList # NoList
    THEN [pc |-> "removeEmptyBarLines.get", requests |-> <<>>]
    ELSE FixerEntry

----------------------------------------------------------------------------
(* doReplacePlaceholders *)

IsBrace(t) == t \in {LB, RB}

\* /{{([^{}]+)}}/ matched at position p of a run's content: the position of
\* the closing braces, 0 when there is no match at p
placeholderEnd(c, p) ==
    IF p > Len(c) \/ c[p] # LB THEN 0
    ELSE LET braces == {q \in (p + 1)..Len(c) : IsBrace(c[q])}
         IN  IF braces = {} THEN 0
             ELSE IF c[Min(braces)] = RB /\ Min(braces) > p + 1
                  THEN Min(braces) ELSE 0

\* content.match(placeholderRegex) over every text run: <<offset, text>>
foundPlaceholders(content) ==
    UNION { UNION { { <<el.startIndex + p - 1,
                        SubSeq(el.content, p, placeholderEnd(el.content, p))>> :
                        p \in {q \in 1..Len(el.content) :
                                  placeholderEnd(el.content, q) # 0} } :
                    el \in {content[i].elements[r] : r \in 1..Len(content[i].elements)} } :
            i \in 1..Len(content) }

\* the Set placeholders, in insertion order
placeholderSet(content) ==
    LET found == foundPlaceholders(content)
        firsts == {m[1] : m \in {x \in found :
                                    \A y \in found : y[2] = x[2] => x[1] <= y[1]}}
        order == SortedSeq(firsts)
    IN  [n \in 1..Len(order) |->
            (CHOOSE m \in found : m[1] = order[n])[2]]

\* placeholder.replace(/[{}]/g, "").trim()
placeholderKey(placeholder) ==
    Trim(SelectSeq(placeholder, LAMBDA t : ~IsBrace(t)))

\* data[key] || ""
placeholderValue(fl, key) ==
    IF Len(key) = 1 THEN Field(fl, key[1]) ELSE <<>>

\* key.includes("experience_point_") || key.includes("project_point_")
includesPoint(key) ==
    \E j \in 1..Len(key) : key[j].k \in {"experience_point", "project_point"}

\* isSkillsKey recognising no key
isSkillsKey_never(key) == FALSE

\* key === "technical_skills" || key === "language_skills"
isSkillsKey(key) ==
    key \in {<<KEY("technical_skills", 0)>>, <<KEY("language_skills", 0)>>}

\* stripStars leaving the value as it is
stripStars_keeps(v) == v

\* value.replace(/\*\*(.*?)\*\*/g, "$1")
RECURSIVE stripStars(_)
stripStars(v) ==
    IF v = <<>> THEN <<>>
    ELSE LET close == {q \in 2..Len(v) : v[q] = STAR}
         IN  IF Head(v) = STAR /\ close # {}
             THEN SubSeq(v, 2, Min(close) - 1)
                  \o stripStars(SubSeq(v, Min(close) + 1, Len(v)))
             ELSE <<Head(v)>> \o stripStars(Tail(v))

\* the request pushed for one placeholder
placeholderRequest(fl, placeholder) ==
    LET key == placeholderKey(placeholder)
        value == placeholderValue(fl, key)
        isEmptyPoint == includesPoint(key) /\ value = <<>>
    IN  IF isEmptyPoint THEN ReplaceText(placeholder, <<RM>>)
        ELSE IF isSkillsKey(key)
             THEN ReplaceText(placeholder, value)
             ELSE ReplaceText(placeholder, stripStars(value))

placeholderRequests(content, fl) ==
    LET ps == placeholderSet(content)
    IN  [n \in 1..Len(ps) |-> placeholderRequest(fl, ps[n])]

\* ResolverGet without the test "if (requests.length)"
ResolverGet_alwaysSends ==
    /\ pc = "doReplacePlaceholders.get"
    /\ snap' = doc
    /\ log' = Append(log, GetCall(pc))
    /\ requests' = placeholderRequests(Content(doc), flat)
    /\ pc' = "doReplacePlaceholders.batchUpdate"
    /\ UNCHANGED <<doc, structured, data, flat, headingsList, secIdx,
                   passCount, boldRequests, chunkAt, paragraphs, idx, failures,
                   budget, doc0, outcome>>
    /\ issued' = issued + Issue(pc')

ResolverGet ==
    /\ pc = "doReplacePlaceholders.get"
    /\ snap' = doc
    /\ log' = Append(log, GetCall(pc))
    /\ requests' = placeholderRequests(Content(doc), flat)
    /\ pc' = IF requests' = <<>> THEN "applyBoldMarkers.get"
             ELSE "doReplacePlaceholders.batchUpdate"
    /\ UNCHANGED <<doc, structured, data, flat, headingsList, secIdx,
                   passCount, boldRequests, chunkAt, paragraphs, idx, failures,
                   budget, doc0, outcome>>
    /\ issued' = issued + Issue(pc')

ResolverBatchOk ==
    /\ pc = "doReplacePlaceholders.batchUpdate"
    /\ doc' = ApplyBatch(doc, requests)
    /\ log' = Append(log, BatchCall(pc, requests, TRUE))
    /\ pc' = "applyBoldMarkers.get"
    /\ UNCHANGED <<snap, structured, data, flat, headingsList, secIdx,
                   requests, passCount, boldRequests, chunkAt, paragraphs, idx,
                   failures, budget, doc0, outcome>>
    /\ issued' = issued + Issue(pc')

\* a rejected batchUpdate at an await outside any try: the rejection leaves
\* the stage and replacePlaceholders
Throws(at) ==
    /\ pc = at
    /\ CanFail
    /\ failures' = failures + 1
    /\ log' = Append(log, BatchCall(pc, requests, FALSE))
    /\ pc' = "threw"
    /\ UNCHANGED <<doc, snap, structured, data, flat, headingsList, secIdx,
                   requests, passCount, boldRequests, chunkAt, paragraphs, idx,
                   budget, doc0, outcome>>
    /\ issued' = issued + Issue(pc')

ResolverBatchFails == Throws("doReplacePlaceholders.batchUpdate")

----------------------------------------------------------------------------
(* applyBoldMarkers *)

\* the pass ceiling of the while loop
MaxPasses == 50
BATCH_SIZE == 10

\* markerRegex /@@BOLD-([a-z0-9]+)@@([^]+?)@@BOLD-\1-END@@/ tried at p: the
\* position of the closing delimiter, 0 when there is no match at p
markerEnd(t, p) ==
    IF t[p].k # "open" THEN 0
    ELSE LET closes == {q \in (p + 2)..Len(t) : t[q] = CLOSE(t[p].i)}
         IN  IF closes = {} THEN 0 ELSE Min(closes)

\* pText.match(markerRegex): [entire, boldText], or <<>> for null
markerMatch(t) ==
    LET at == {p \in 1..Len(t) : markerEnd(t, p) # 0}
    IN  IF at = {} THEN <<>>
        ELSE LET p == Min(at)
                 q == markerEnd(t, p)
             IN  <<SubSeq(t, p, q), SubSeq(t, p + 1, q - 1)>>

\* markerRequests putting the whole match back (replaceText: entire)
markerRequests_keepsDelimiters(content) ==
    LET hits == {i \in 1..Len(content) : markerMatch(getParagraphText(content[i])) # <<>>}
    IN  IF hits = {} THEN <<>>
        ELSE LET m == markerMatch(getParagraphText(content[Min(hits)]))
             IN  <<ReplaceText(m[1], m[1])>>

\* markerRequests taking the last paragraph that matches
markerRequests_lastParagraph(content) ==
    LET hits == {i \in 1..Len(content) : markerMatch(getParagraphText(content[i])) # <<>>}
    IN  IF hits = {} THEN <<>>
        ELSE LET m == markerMatch(getParagraphText(content[Max(hits)]))
             IN  <<ReplaceText(m[1], m[2])>>

\* "find first occurrence in any paragraph": the requests of a pass
markerRequests(content) ==
    LET hits == {i \in 1..Len(content) : markerMatch(getParagraphText(content[i])) # <<>>}
    IN  IF hits = {} THEN <<>>
        ELSE LET m == markerMatch(getParagraphText(content[Min(hits)]))
             IN  <<ReplaceText(m[1], m[2])>>

\* StylerLoop with the test passCount <= 50
StylerLoop_onePassMore(d, passes) ==
    IF passes <= MaxPasses /\ markerRequests(Content(d)) # <<>>
    THEN [pc |-> "applyBoldMarkers.batchUpdate", passCount |-> passes + 1,
          requests |-> markerRequests(Content(d))]
    ELSE [pc |-> "removeEmptyMarkers.batchUpdate",
          passCount |-> IF passes <= MaxPasses THEN passes + 1 ELSE passes,
          requests |-> <<>>]

\* the while loop from its test to its next await, on the snapshot d
\* (foundAny is true whenever the test is reached)
StylerLoop(d, passes) ==
    IF passes < MaxPasses /\ markerRequests(Content(d)) # <<>>
    THEN [pc |-> "applyBoldMarkers.batchUpdate", passCount |-> passes + 1,
          requests |-> markerRequests(Content(d))]
    ELSE [pc |-> "removeEmptyMarkers.batchUpdate",
          passCount |-> IF passes < MaxPasses THEN passes + 1 ELSE passes,
          requests |-> <<>>]

\* occurrences going on one unit after a hit (indexOf(s, pos + 1))
RECURSIVE occurrences_overlapping(_, _, _)
occurrences_overlapping(c, s, from) ==
    LET pos == IndexOf(c, s, from)
    IN  IF pos = 0 THEN <<>> ELSE <<pos>> \o occurrences_overlapping(c, s, pos + 1)

\* the non-overlapping occurrences of s in a run's content, by indexOf
RECURSIVE occurrences(_, _, _)
occurrences(c, s, from) ==
    LET pos == IndexOf(c, s, from)
    IN  IF pos = 0 THEN <<>> ELSE <<pos>> \o occurrences(c, s, pos + Len(s))

\* elementBoldRequests with ranges one short
elementBoldRequests_oneShort(el, s) ==
    LET occ == occurrences(el.content, s, 1)
    IN  [n \in 1..Len(occ) |->
            ApplyStyle(el.startIndex + occ[n] - 1, el.startIndex + occ[n] - 2 + Len(s))]

\* the updateTextStyle requests for one paragraph element
elementBoldRequests(el, s) ==
    LET occ == occurrences(el.content, s, 1)
    IN  [n \in 1..Len(occ) |->
            ApplyStyle(el.startIndex + occ[n] - 1, el.startIndex + occ[n] - 1 + Len(s))]

\* "search the entire doc for textWeInserted, bold all occurrences"
boldRequestsFor(content, s) ==
    Concat([i \in 1..Len(content) |->
        IF content[i].kind = "paragraph" /\ Includes(getParagraphText(content[i]), s)
        THEN Concat([r \in 1..Len(content[i].elements) |->
                        elementBoldRequests(content[i].elements[r], s)])
        ELSE <<>>])

StylerGet ==
    /\ pc = "applyBoldMarkers.get"
    /\ snap' = doc
    /\ log' = Append(log, GetCall(pc))
    /\ pc' = StylerLoop(doc, 0).pc
    /\ passCount' = StylerLoop(doc, 0).passCount
    /\ requests' = StylerLoop(doc, 0).requests
    /\ UNCHANGED <<doc, structured, data, flat, headingsList, secIdx,
                   boldRequests, chunkAt, paragraphs, idx, failures, budget, doc0, outcome>>
    /\ issued' = issued + Issue(pc')

\* StylerBatchOk going on to the style chunks without the re-fetch, the
\* ranges taken from the snapshot read before the replacement
StylerBatchOk_noRefetch ==
    /\ pc = "applyBoldMarkers.batchUpdate"
    /\ doc' = ApplyBatch(doc, requests)
    /\ log' = Append(log, BatchCall(pc, requests, TRUE))
    /\ boldRequests' = <<ApplyStyle(1, 1 + Len(requests[1].replaceText))>>
    /\ chunkAt' = 0
    /\ pc' = "applyBoldMarkers.chunk"
    /\ issued' = issued + Issue(pc')
    /\ UNCHANGED <<snap, structured, data, flat, headingsList, secIdx,
                   requests, passCount, paragraphs, idx,
                   failures, budget, doc0, outcome>>

StylerBatchOk ==
    /\ pc = "applyBoldMarkers.batchUpdate"
    /\ doc' = ApplyBatch(doc, requests)
    /\ log' = Append(log, BatchCall(pc, requests, TRUE))
    /\ pc' = "applyBoldMarkers.get2"
    /\ UNCHANGED <<snap, structured, data, flat, headingsList, secIdx,
                   requests, passCount, boldRequests, chunkAt, paragraphs, idx,
                   failures, budget, doc0, outcome>>
    /\ issued' = issued + Issue(pc')

StylerBatchFails == Throws("applyBoldMarkers.batchUpdate")

\* the re-fetch after the replacement, up to the next await
StylerGet2 ==
    /\ pc = "applyBoldMarkers.get2"
    /\ snap' = doc
    /\ log' = Append(log, GetCall(pc))
    /\ LET textWeInserted == requests[1].replaceText
           found == IF Trim(textWeInserted) = <<>> THEN <<>>
                    ELSE boldRequestsFor(Content(doc), textWeInserted)
       IN  IF found # <<>>
           THEN /\ boldRequests' = found
                /\ chunkAt' = 0
                /\ pc' = "applyBoldMarkers.chunk"
                /\ UNCHANGED <<passCount, requests>>
           ELSE /\ boldRequests' = found
                /\ chunkAt' = 0
                /\ pc' = StylerLoop(doc, passCount).pc
                /\ passCount' = StylerLoop(doc, passCount).passCount
                /\ requests' = StylerLoop(doc, passCount).requests
    /\ UNCHANGED <<doc, structured, data, flat, headingsList, secIdx,
                   paragraphs, idx, failures, budget, doc0, outcome>>
    /\ issued' = issued + Issue(pc')

\* boldRequests.slice(i, i + BATCH_SIZE)
chunk == SubSeq(boldRequests, chunkAt + 1,
                IF chunkAt + BATCH_SIZE < Len(boldRequests)
                THEN chunkAt + BATCH_SIZE ELSE Len(boldRequests))

\* AfterChunk stepping by BATCH_SIZE + 1
AfterChunk_skipsOne ==
    /\ chunkAt' = chunkAt + BATCH_SIZE + 1
    /\ pc' = IF chunkAt + BATCH_SIZE + 1 < Len(boldRequests)
             THEN "applyBoldMarkers.chunk" ELSE "applyBoldMarkers.get3"

AfterChunk ==
    /\ chunkAt' = chunkAt + BATCH_SIZE
    /\ pc' = IF chunkAt + BATCH_SIZE < Len(boldRequests)
             THEN "applyBoldMarkers.chunk" ELSE "applyBoldMarkers.get3"

StylerChunkOk ==
    /\ pc = "applyBoldMarkers.chunk"
    /\ doc' = ApplyBatch(doc, chunk)
    /\ log' = Append(log, BatchCall(pc, chunk, TRUE))
    /\ AfterChunk
    /\ UNCHANGED <<snap, structured, data, flat, headingsList, secIdx,
                   requests, passCount, boldRequests, paragraphs, idx, failures,
                   budget, doc0, outcome>>
    /\ issued' = issued + Issue(pc')

\* the catch around a bold chunk: warn, next chunk
StylerChunkFails ==
    /\ pc = "applyBoldMarkers.chunk"
    /\ CanFail
    /\ failures' = failures + 1
    /\ log' = Append(log, BatchCall(pc, chunk, FALSE))
    /\ AfterChunk
    /\ UNCHANGED <<doc, snap, structured, data, flat, headingsList, secIdx,
                   requests, passCount, boldRequests, paragraphs, idx, budget, doc0, outcome>>
    /\ issued' = issued + Issue(pc')

\* the re-fetch after the chunks, then the loop test
StylerGet3 ==
    /\ pc = "applyBoldMarkers.get3"
    /\ snap' = doc
    /\ log' = Append(log, GetCall(pc))
    /\ pc' = StylerLoop(doc, passCount).pc
    /\ passCount' = StylerLoop(doc, passCount).passCount
    /\ requests' = StylerLoop(doc, passCount).requests
    /\ UNCHANGED <<doc, structured, data, flat, headingsList, secIdx,
                   boldRequests, chunkAt, paragraphs, idx, failures, budget, doc0, outcome>>
    /\ issued' = issued + Issue(pc')

----------------------------------------------------------------------------
(* removeEmptyMarkers *)

\* emptyMarkerRequests with a style request behind the replacement
emptyMarkerRequests_withStyle == <<ReplaceText(<<RM>>, <<>>), ApplyStyle(1, 2)>>

emptyMarkerRequests == <<ReplaceText(<<RM>>, <<>>)>>

RemoveEmptyMarkersOk ==
    /\ pc = "removeEmptyMarkers.batchUpdate"
    /\ doc' = ApplyBatch(doc, emptyMarkerRequests)
    /\ log' = Append(log, BatchCall(pc, emptyMarkerRequests, TRUE))
    /\ pc' = AfterMarkers.pc
    /\ requests' = AfterMarkers.requests
    /\ UNCHANGED <<snap, structured, data, flat, headingsList, secIdx,
                   passCount, boldRequests, chunkAt, paragraphs, idx, failures,
                   budget, doc0, outcome>>
    /\ issued' = issued + Issue(pc')

\* the catch of removeEmptyMarkers: warn and return
RemoveEmptyMarkersFails ==
    /\ pc = "removeEmptyMarkers.batchUpdate"
    /\ CanFail
    /\ failures' = failures + 1
    /\ log' = Append(log, BatchCall(pc, emptyMarkerRequests, FALSE))
    /\ pc' = AfterMarkers.pc
    /\ requests' = AfterMarkers.requests
    /\ UNCHANGED <<doc, snap, structured, data, flat, headingsList, secIdx,
                   passCount, boldRequests, chunkAt, paragraphs, idx, budget, doc0, outcome>>
    /\ issued' = issued + Issue(pc')

----------------------------------------------------------------------------
(* removeEmptyBarLinesOneByOne *)

\* collectParagraphs without the sort: document order
collectParagraphs_ascending(content) ==
    LET starts == {content[i].startIndex :
                      i \in {k \in 1..Len(content) :
                                /\ content[k].kind = "paragraph"
                                /\ content[k].startIndex # Undef
                                /\ content[k].endIndex # Undef}}
        asc == SortedSeq(starts)
        item(st) == CHOOSE it \in {content[k] : k \in 1..Len(content)} :
                        it.startIndex = st
    IN  [n \in 1..Len(asc) |->
            [startIndex |-> asc[n], endIndex |-> item(asc[n]).endIndex]]

\* "Collect paragraphs", then paragraphs.sort((a, b) => b.startIndex - a.startIndex)
collectParagraphs(content) ==
    LET starts == {content[i].startIndex :
                      i \in {k \in 1..Len(content) :
                                /\ content[k].kind = "paragraph"
                                /\ content[k].startIndex # Undef
                                /\ content[k].endIndex # Undef}}
        asc == SortedSeq(starts)
        item(st) == CHOOSE it \in {content[k] : k \in 1..Len(content)} :
                        it.startIndex = st
    IN  [n \in 1..Len(asc) |->
            [startIndex |-> asc[Len(asc) + 1 - n],
             endIndex |-> item(asc[Len(asc) + 1 - n]).endIndex]]

Abs(x) == IF x < 0 THEN 0 - x ELSE x

\* findParagraphByRange: the index in content of the first paragraph at the
\* least distance from startIndex, 0 for null
findParagraphByRange(content, startIndex, endIndex) ==
    LET cands == {i \in 1..Len(content) :
                    /\ content[i].kind = "paragraph"
                    /\ content[i].startIndex # Undef
                    /\ content[i].endIndex # Undef}
        delta(i) == Abs(content[i].startIndex - startIndex)
        best == {i \in cands : \A k \in cands : delta(i) <= delta(k)}
    IN  IF cands = {} THEN 0 ELSE Min(best)

\* content.findIndex((x) => x.startIndex === paragraph.startIndex), 0 for -1
findIndexByStart(content, paragraph) ==
    LET hits == {i \in 1..Len(content) : content[i].startIndex = paragraph.startIndex}
    IN  IF hits = {} THEN 0 ELSE Min(hits)

inHeadingsList(hl, text) ==
    \E n \in 1..Len(hl) : ToUpperCase(hl[n]) = text

isImmediatelyAfterHeading(content, paragraph, hl) ==
    LET i == findIndexByStart(content, paragraph)
    IN  IF i <= 1 THEN FALSE
        ELSE inHeadingsList(hl, lineText(content[i - 1]))

\* isImmediatelyBeforeHeading looking at the previous item instead of the next
isImmediatelyBeforeHeading_looksBack(content, paragraph, hl) ==
    LET i == findIndexByStart(content, paragraph)
    IN  IF i = 0 \/ i >= Len(content) THEN FALSE
        ELSE inHeadingsList(hl, lineText(content[i - 1]))

isImmediatelyBeforeHeading(content, paragraph, hl) ==
    LET i == findIndexByStart(content, paragraph)
    IN  IF i = 0 \/ i >= Len(content) THEN FALSE
        ELSE inHeadingsList(hl, lineText(content[i + 1]))

\* isBar without the bare "|"
isBar_paddedOnly(text) ==
    text \in {<<BAR, SP>>, <<SP, BAR>>, <<SP, BAR, SP>>}

\* isBar for any run of glyphs and spaces
isBar_anyGlyphs(text) ==
    text # <<>> /\ \A j \in 1..Len(text) : text[j] \in {BAR, SP}

\* ["|", "| ", " |", " | "].includes(text), text being trimmed already
isBar(text) ==
    text \in {<<BAR>>, <<BAR, SP>>, <<SP, BAR>>, <<SP, BAR, SP>>}

\* sweepRequests without the test of the text
sweepRequests_anyText(content, cand, hl) ==
    LET m == findParagraphByRange(content, cand.startIndex, cand.endIndex)
    IN  IF m = 0 THEN <<>>
        ELSE LET match == content[m]
             IN  IF isImmediatelyAfterHeading(content, match, hl) THEN <<>>
                 ELSE IF isImmediatelyBeforeHeading(content, match, hl) THEN <<>>
                 ELSE <<DeleteRange(match.startIndex, match.endIndex)>>

\* sweepRequests leaving the paragraph's line terminator in place
sweepRequests_withoutTerminator(content, cand, hl) ==
    LET m == findParagraphByRange(content, cand.startIndex, cand.endIndex)
    IN  IF m = 0 THEN <<>>
        ELSE LET match == content[m]
                 text == Trim(getParagraphText(match))
             IN  IF ~(text = <<>>) /\ ~isBar(text) THEN <<>>
                 ELSE IF isImmediatelyAfterHeading(content, match, hl) THEN <<>>
                 ELSE IF isImmediatelyBeforeHeading(content, match, hl) THEN <<>>
                 ELSE <<DeleteRange(match.startIndex, match.endIndex - 1)>>

\* the requests of one visit of the sweep (none: the paragraph is kept)
sweepRequests(content, cand, hl) ==
    LET m == findParagraphByRange(content, cand.startIndex, cand.endIndex)
    IN  IF m = 0 THEN <<>>
        ELSE LET match == content[m]
                 text == Trim(getParagraphText(match))
             IN  IF ~(text = <<>>) /\ ~isBar(text) THEN <<>>
                 ELSE IF isImmediatelyAfterHeading(content, match, hl) THEN <<>>
                 ELSE IF isImmediatelyBeforeHeading(content, match, hl) THEN <<>>
                 ELSE <<DeleteRange(match.startIndex, match.endIndex)>>

\* AfterVisit without the idx++
AfterVisit_repeats ==
    /\ idx' = idx
    /\ IF idx < Len(paragraphs)
       THEN pc' = "removeEmptyBarLines.get2" /\ requests' = <<>>
       ELSE pc' = FixerEntry.pc /\ requests' = FixerEntry.requests

\* the for loop's idx++ and test, up to the next await
AfterVisit ==
    /\ idx' = idx + 1
    /\ IF idx + 1 < Len(paragraphs)
       THEN pc' = "removeEmptyBarLines.get2" /\ requests' = <<>>
       ELSE pc' = FixerEntry.pc /\ requests' = FixerEntry.requests

SweeperGet ==
    /\ pc = "removeEmptyBarLines.get"
    /\ snap' = doc
    /\ log' = Append(log, GetCall(pc))
    /\ paragraphs' = collectParagraphs(Content(doc))
    /\ idx' = 0
    /\ IF Len(paragraphs') > 0
       THEN pc' = "removeEmptyBarLines.get2" /\ requests' = <<>>
       ELSE pc' = FixerEntry.pc /\ requests' = FixerEntry.requests
    /\ UNCHANGED <<doc, structured, data, flat, headingsList, secIdx,
                   passCount, boldRequests, chunkAt, failures, budget, doc0, outcome>>
    /\ issued' = issued + Issue(pc')

\* "Re-fetch each time", then the visit of paragraphs[idx]
SweeperGet2 ==
    /\ pc = "removeEmptyBarLines.get2"
    /\ snap' = doc
    /\ log' = Append(log, GetCall(pc))
    /\ LET reqs == sweepRequests(Content(doc), paragraphs[idx + 1], headingsList)
       IN  IF reqs # <<>>
           THEN /\ requests' = reqs
                /\ pc' = "removeEmptyBarLines.batchUpdate"
                /\ idx' = idx
           ELSE AfterVisit
    /\ UNCHANGED <<doc, structured, data, flat, headingsList, secIdx,
                   passCount, boldRequests, chunkAt, paragraphs, failures, budget, doc0, outcome>>
    /\ issued' = issued + Issue(pc')

SweeperBatchOk ==
    /\ pc = "removeEmptyBarLines.batchUpdate"
    /\ doc' = ApplyBatch(doc, requests)
    /\ log' = Append(log, BatchCall(pc, requests, TRUE))
    /\ AfterVisit
    /\ UNCHANGED <<snap, structured, data, flat, headingsList, secIdx,
                   passCount, boldRequests, chunkAt, paragraphs, failures, budget, doc0, outcome>>
    /\ issued' = issued + Issue(pc')

\* SweeperBatchFails without the try/catch
SweeperBatchFails_throws == Throws("removeEmptyBarLines.batchUpdate")

\* the catch around the delete: warn, next paragraph
SweeperBatchFails ==
    /\ pc = "removeEmptyBarLines.batchUpdate"
    /\ CanFail
    /\ failures' = failures + 1
    /\ log' = Append(log, BatchCall(pc, requests, FALSE))
    /\ AfterVisit
    /\ UNCHANGED <<doc, snap, structured, data, flat, headingsList, secIdx,
                   passCount, boldRequests, chunkAt, paragraphs, budget, doc0, outcome>>
    /\ issued' = issued + Issue(pc')

----------------------------------------------------------------------------
(* fixCompanyLocationBars: its await *)

FixerBatchOk ==
    /\ pc = "fixCompanyLocationBars.batchUpdate"
    /\ doc' = ApplyBatch(doc, requests)
    /\ log' = Append(log, BatchCall(pc, requests, TRUE))
    /\ pc' = "done"
    /\ UNCHANGED <<snap, structured, data, flat, headingsList, secIdx,
                   requests, passCount, boldRequests, chunkAt, paragraphs, idx,
                   failures, budget, doc0, outcome>>
    /\ issued' = issued + Issue(pc')

FixerBatchFails == Throws("fixCompanyLocationBars.batchUpdate")

----------------------------------------------------------------------------
(* flattenStructuredData *)

\* exp.points[j] for j <= length, "" for the fill up to 5
pointOrEmpty(points, j) == IF j <= Len(points) THEN points[j] ELSE <<>>

flattenStructuredData(dat) ==
    LET ex(i) == dat.experience[i]
        pr(i) == dat.projects[i]
        ed(i) == dat.education[i]
        nEx == Len(dat.experience)
        nPr == Len(dat.projects)
        nEd == Len(dat.education)
        names ==
            {KEY(k, 0) : k \in {"name", "phone", "location", "email", "link",
                                "language_skills", "technical_skills"}}
            \cup {KEY(k, i) : k \in {"company", "company_location",
                                     "experience_date", "position",
                                     "institution", "degree", "education_date"},
                              i \in 1..5}
            \cup {KEY("experience_point", 10 * i + j) : i \in 1..5, j \in 1..5}
            \cup {KEY("project", i) : i \in 1..3}
            \cup {KEY("project_point", 10 * i + j) : i \in 1..3, j \in 1..5}
        value(n) ==
            CASE n.k = "name" -> dat.basicInfo.name
              [] n.k = "phone" -> dat.basicInfo.phone
              [] n.k = "location" -> dat.basicInfo.location
              [] n.k = "email" -> dat.basicInfo.email
              [] n.k = "link" -> dat.basicInfo.link
              [] n.k = "language_skills" -> dat.languageSkills
              [] n.k = "technical_skills" -> dat.technicalSkills
              [] n.k = "company" -> IF n.i <= nEx THEN ex(n.i).company ELSE <<>>
              [] n.k = "company_location" ->
                    IF n.i <= nEx THEN ex(n.i).companyLocation ELSE <<>>
              [] n.k = "experience_date" -> IF n.i <= nEx THEN ex(n.i).date ELSE <<>>
              [] n.k = "position" -> IF n.i <= nEx THEN ex(n.i).position ELSE <<>>
              [] n.k = "experience_point" ->
                    IF n.i \div 10 <= nEx
                    THEN pointOrEmpty(ex(n.i \div 10).points, n.i % 10) ELSE <<>>
              [] n.k = "project" -> IF n.i <= nPr THEN pr(n.i).name ELSE <<>>
              [] n.k = "project_point" ->
                    IF n.i \div 10 <= nPr
                    THEN pointOrEmpty(pr(n.i \div 10).points, n.i % 10) ELSE <<>>
              [] n.k = "institution" -> IF n.i <= nEd THEN ed(n.i).institution ELSE <<>>
              [] n.k = "degree" -> IF n.i <= nEd THEN ed(n.i).degree ELSE <<>>
              [] n.k = "education_date" -> IF n.i <= nEd THEN ed(n.i).date ELSE <<>>
    IN  [n \in names |-> value(n)]

----------------------------------------------------------------------------
(* Templates and records *)

\* a stretch of template text, plain or bold
P(text) == [j \in 1..Len(text) |-> <<text[j], FALSE>>]
Bd(text) == [j \in 1..Len(text) |-> <<text[j], TRUE>>]

\* the document a sequence of stretches makes, each cell at its position
Template(parts) ==
    LET c == Concat(parts)
    IN  [j \in 1..Len(c) |-> Cell(c[j][1], c[j][2], j)]

RECURSIVE SeqsUpTo(_, _)
SeqsUpTo(S, n) ==
    IF n = 0 THEN {<<>>}
    ELSE LET shorter == SeqsUpTo(S, n - 1)
         IN  shorter \cup {Append(s, x) : s \in {t \in shorter : Len(t) = n - 1}, x \in S}

TemplatesOf(paras, n) == {Template(ps) : ps \in SeqsUpTo(paras, n) \ {<<>>}}

\* a ResumeData record: one entry per non-empty list, given texts
Experience(company, loc, points) ==
    [company |-> company, companyLocation |-> loc, date |-> <<W(8)>>,
     position |-> <<W(9)>>, points |-> points]

Record(name, experience, projects, education, lang, tech) ==
    [basicInfo |-> [name |-> name, phone |-> <<W(7)>>, location |-> <<W(7)>>,
                    email |-> <<W(7)>>, link |-> <<W(7)>>],
     experience |-> experience, projects |-> projects, education |-> education,
     languageSkills |-> lang, technicalSkills |-> tech]

OneExperience == <<Experience(<<W(4)>>, <<W(5)>>, <<<<W(3)>>>>)>>
NoLocationExperience == <<Experience(<<W(4)>>, <<>>, <<<<W(3)>>>>)>>
OneProject == <<[name |-> <<W(6)>>, points |-> <<<<W(3)>>>>]>>
OneEducation == <<[institution |-> <<W(4)>>, degree |-> <<W(5)>>, date |-> <<W(8)>>]>>

\* the record of a run that passes no structuredData
NoData == Record(<<>>, <<>>, <<>>, <<>>, <<>>, <<>>)

NoFields == [k \in {} |-> <<>>]

\* what replacePlaceholders has before its first await
\* the state of a run suspended at p, nothing done yet
StartAt(d, st, dat, fl, hl, bud, p, sec, out) ==
    /\ doc = d
    /\ doc0 = d
    /\ snap = <<>>
    /\ structured = st
    /\ data = dat
    /\ flat = fl
    /\ headingsList = hl
    /\ requests = <<>>
    /\ passCount = 0
    /\ boldRequests = <<>>
    /\ chunkAt = 0
    /\ paragraphs = <<>>
    /\ idx = 0
    /\ failures = 0
    /\ budget = bud
    /\ log = <<>>
    /\ issued = 1
    /\ outcome = out
    /\ pc = p
    /\ secIdx = sec

Start(d, st, dat, fl, hl, bud) ==
    LET rest == IF st THEN {j \in 1..NumSections : ~dataCheck(j, dat)} ELSE {}
    IN  IF rest # {}
        THEN StartAt(d, st, dat, fl, hl, bud, "removeSection.get", Min(rest), NotDriven)
        ELSE StartAt(d, st, dat, fl, hl, bud, "doReplacePlaceholders.get",
                     NumSections + 1, NotDriven)

\* replaceStructuredPlaceholders(auth, documentId, dat)
StartStructured(d, dat, bud) ==
    Start(d, TRUE, dat, flattenStructuredData(dat), buildHeadingsListFromData(dat), bud)

\* paragraphs of the templates given to removeEmptySections
PrunerParas ==
    { P(<<HD(1), NL>>), P(<<HDL(2), SP, NL>>), P(<<HD(3), NL>>), P(<<W(1), NL>>) }

PrunerRecords ==
    { Record(<<W(2)>>, e, p, u, s, s) :
        e \in {<<>>, OneExperience}, p \in {<<>>, OneProject},
        u \in {<<>>, OneEducation}, s \in {<<SP>>, <<W(2), BAR, W(3)>>} }

\* removeEmptySections, entered through replaceStructuredPlaceholders
InitPruner ==
    \E d \in TemplatesOf(PrunerParas, MaxPrunerParas), dat \in PrunerRecords :
        StartStructured(d, dat, MaxFailures)

NextPruner ==
    \/ RemoveSectionGet
    \/ RemoveSectionBatchOk
    \/ RemoveSectionBatchFails
    \/ GetFails

SpecPruner == InitPruner /\ [][NextPruner]_vars

----------------------------------------------------------------------------
(* doReplacePlaceholders on its own: replacePlaceholders(auth, id, flat) *)

ResolverParas ==
    { P(<<LB, KEY("name", 0), RB, NL>>),
      Bd(<<W(1)>>) \o P(<<SP, LB, KEY("name", 0), RB, NL>>),
      Bd(<<LB>>) \o P(<<KEY("technical_skills", 0), RB, NL>>),
      P(<<LB, KEY("experience_point", 13), RB, NL>>),
      P(<<LB, KEY("technical_skills", 0), RB, NL>>),
      P(<<W(1), NL>>) }

\* a value a field may have; Missing: the mapping has no such key
Missing == <<Tok("missing", 0)>>

Fields(name, point, skills) ==
    LET given == {<<KEY("name", 0), name>>, <<KEY("experience_point", 13), point>>,
                  <<KEY("technical_skills", 0), skills>>}
        has == {g \in given : g[2] # Missing}
    IN  [n \in {g[1] : g \in has} |-> (CHOOSE g \in has : g[1] = n)[2]]

ResolverFields ==
    { Fields(n, p, s) :
        n \in {Missing, <<>>, <<W(2)>>, <<STAR, W(2), STAR, SP, W(3)>>},
        p \in {Missing, <<>>, <<W(3)>>, <<STAR, W(3), STAR>>},
        s \in {<<W(2), SP, BAR, SP, STAR, W(3), STAR>>} }

InitResolver ==
    \E d \in TemplatesOf(ResolverParas, MaxResolverParas), fl \in ResolverFields :
        Start(d, FALSE, NoData, fl, NoList, MaxFailures)

NextResolver ==
    \/ ResolverGet
    \/ ResolverBatchOk
    \/ ResolverBatchFails
    \/ GetFails

SpecResolver == InitResolver /\ [][NextResolver]_vars

----------------------------------------------------------------------------
(* applyBoldMarkers on templates holding marker spans *)

StylerParas ==
    { P(<<OPEN(1), W(1), CLOSE(1), NL>>),
      P(<<W(2), SP, OPEN(2), W(1), SP, W(2), CLOSE(2), NL>>),
      P(<<OPEN(3), SP, CLOSE(3), NL>>),
      P(<<W(1), SP>>) \o Bd(<<W(2)>>) \o P(<<NL>>),
      P(<<OPEN(4), OPEN(5), W(1), CLOSE(4), CLOSE(5), NL>>),
      P(<<OPEN(6), W(2), OPEN(7), W(1), CLOSE(7), CLOSE(6), NL>>),
      P(<<OPEN(8), W(1), NL>>),
      P(<<W(1), SP, OPEN(9), W(1), SP, W(1), CLOSE(9), NL>>) }

\* n paragraphs, each one span with its own id and payload
ManySpans(n) ==
    Template([i \in 1..n |-> P(<<OPEN(i), W(i), CLOSE(i), NL>>)])

\* one span whose payload occurs n more times further down
ManyOccurrences(n) ==
    Template(<<P(<<OPEN(1), W(1), CLOSE(1), NL>>)>>
             \o [i \in 1..n |-> P(<<W(1), SP>>)] \o <<P(<<NL>>)>>)

InitStyler ==
    \/ \E d \in TemplatesOf(StylerParas, MaxStylerParas) :
          Start(d, FALSE, NoData, NoFields, NoList, MaxFailures)
    \/ Start(ManyOccurrences(BATCH_SIZE + 1), FALSE, NoData, NoFields, NoList,
             MaxFailures)
    \/ \E n \in {MaxPasses, MaxPasses + 1} :
          Start(ManySpans(n), FALSE, NoData, NoFields, NoList, MaxFailuresLong)

NextStyler ==
    \/ ResolverGet
    \/ StylerGet
    \/ StylerBatchOk
    \/ StylerBatchFails
    \/ StylerGet2
    \/ StylerChunkOk
    \/ StylerChunkFails
    \/ StylerGet3
    \/ GetFails

SpecStyler == InitStyler /\ [][NextStyler]_vars

\* NextStyler is enabled exactly when the call the pipeline waits for is one
\* of NextStyler's: every such call can return
StylerWaiting ==
    pc \in {"doReplacePlaceholders.get", "applyBoldMarkers.get",
            "applyBoldMarkers.batchUpdate", "applyBoldMarkers.get2",
            "applyBoldMarkers.chunk", "applyBoldMarkers.get3"}

\* every remote call returns, so the continuation of each await runs:
\* WF_vars(NextStyler), written out with StylerWaiting for ENABLED
FairSpecStyler ==
    SpecStyler /\ ([]<>(~StylerWaiting) \/ []<><<NextStyler>>_vars)

----------------------------------------------------------------------------
(* removeEmptyBarLinesOneByOne: replacePlaceholders(auth, id, {}, undefined, hl) *)

SweeperParas ==
    { P(<<HD(1), NL>>), P(<<HDL(2), NL>>), P(<<NL>>), P(<<SP, BAR, SP, NL>>),
      P(<<W(1), NL>>) }

SweeperLists ==
    { <<>>, << <<HD(1)>> >>, << <<HD(1)>>, <<HD(2)>> >> }

InitSweeper ==
    \E d \in TemplatesOf(SweeperParas, MaxSweeperParas), hl \in SweeperLists :
        Start(d, FALSE, NoData, NoFields, hl, MaxFailures)

NextSweeper ==
    \/ ResolverGet
    \/ StylerGet
    \/ RemoveEmptyMarkersOk
    \/ RemoveEmptyMarkersFails
    \/ SweeperGet
    \/ SweeperGet2
    \/ SweeperBatchOk
    \/ SweeperBatchFails
    \/ GetFails

SpecSweeper == InitSweeper /\ [][NextSweeper]_vars

----------------------------------------------------------------------------
(* The whole pipeline *)

PipelineParas ==
    { P(<<HD(1), NL>>),
      P(<<LB, KEY("company", 1), RB, SP, LB, KEY("company_location", 1), RB, NL>>),
      P(<<LB, KEY("experience_point", 13), RB, NL>>),
      P(<<OPEN(1), W(1), CLOSE(1), NL>>),
      P(<<HD(2), NL>>),
      P(<<NL>>),
      P(<<W(1), NL>>) }

PipelineRecords ==
    { Record(<<W(2)>>, e, p, OneEducation, <<W(2)>>, <<W(2)>>) :
        e \in {<<>>, OneExperience, NoLocationExperience},
        p \in {<<>>, OneProject} }

Init ==
    \E d \in TemplatesOf(PipelineParas, MaxPipelineParas) :
        \/ \E dat \in PipelineRecords : StartStructured(d, dat, MaxFailures)
        \/ Start(d, FALSE, NoData, NoFields, NoList, MaxFailures)

Next ==
    \/ RemoveSectionGet
    \/ RemoveSectionBatchOk
    \/ RemoveSectionBatchFails
    \/ ResolverGet
    \/ ResolverBatchOk
    \/ ResolverBatchFails
    \/ StylerGet
    \/ StylerBatchOk
    \/ StylerBatchFails
    \/ StylerGet2
    \/ StylerChunkOk
    \/ StylerChunkFails
    \/ StylerGet3
    \/ RemoveEmptyMarkersOk
    \/ RemoveEmptyMarkersFails
    \/ SweeperGet
    \/ SweeperGet2
    \/ SweeperBatchOk
    \/ SweeperBatchFails
    \/ FixerBatchOk
    \/ FixerBatchFails
    \/ GetFails

Spec == Init /\ [][Next]_vars

----------------------------------------------------------------------------
(* testResumeGenerator: getAuthClient, copyTemplate,                       *)
(* replaceStructuredPlaceholders, shareDocument, inside one try / catch    *)

DriverCall(what, ok) == [call |-> what, at |-> what, requests |-> <<>>, ok |-> ok]

\* the identifier drive.files.copy returns
NewDocumentId == "newDocumentId"

getDocumentUrl(documentId) == <<"https://docs.google.com/document/d/", documentId, "/edit">>

\* the first await of replaceStructuredPlaceholders
PipelineEntry == AfterSection(0)

AuthOk ==
    /\ pc = "getAuthClient"
    /\ log' = Append(log, DriverCall(pc, TRUE))
    /\ pc' = "copyTemplate"
    /\ issued' = issued + Issue(pc')
    /\ UNCHANGED <<doc, snap, structured, data, flat, headingsList, secIdx,
                   requests, passCount, boldRequests, chunkAt, paragraphs, idx,
                   failures, budget, doc0, outcome>>

\* a driver call rejects (or copy returns no id): control goes to the catch
DriverCallFails(at) ==
    /\ pc = at
    /\ CanFail
    /\ failures' = failures + 1
    /\ log' = Append(log, DriverCall(pc, FALSE))
    /\ pc' = "threw"
    /\ issued' = issued + Issue(pc')
    /\ UNCHANGED <<doc, snap, structured, data, flat, headingsList, secIdx,
                   requests, passCount, boldRequests, chunkAt, paragraphs, idx,
                   budget, doc0, outcome>>

\* AuthFails with the driver going on to copy the template
AuthFails_goesOn ==
    /\ pc = "getAuthClient"
    /\ CanFail
    /\ failures' = failures + 1
    /\ log' = Append(log, DriverCall(pc, FALSE))
    /\ pc' = "copyTemplate"
    /\ issued' = issued + Issue(pc')
    /\ UNCHANGED <<doc, snap, structured, data, flat, headingsList, secIdx,
                   requests, passCount, boldRequests, chunkAt, paragraphs, idx,
                   budget, doc0, outcome>>

AuthFails == DriverCallFails("getAuthClient")

CopyOk ==
    /\ pc = "copyTemplate"
    /\ log' = Append(log, DriverCall(pc, TRUE))
    /\ pc' = PipelineEntry.pc
    /\ secIdx' = PipelineEntry.secIdx
    /\ issued' = issued + Issue(pc')
    /\ UNCHANGED <<doc, snap, structured, data, flat, headingsList,
                   requests, passCount, boldRequests, chunkAt, paragraphs, idx,
                   failures, budget, doc0, outcome>>

CopyFails == DriverCallFails("copyTemplate")

\* replaceStructuredPlaceholders has resolved: the driver goes on to share
DriverResumes ==
    /\ pc = "done"
    /\ outcome = Pending
    /\ pc' = "shareDocument"
    /\ issued' = issued + Issue(pc')
    /\ UNCHANGED <<doc, snap, structured, data, flat, headingsList, secIdx,
                   requests, passCount, boldRequests, chunkAt, paragraphs, idx,
                   failures, budget, log, doc0, outcome>>

ShareOk ==
    /\ pc = "shareDocument"
    /\ log' = Append(log, DriverCall(pc, TRUE))
    /\ pc' = "returned"
    /\ outcome' = [success |-> TRUE, documentId |-> NewDocumentId,
                   documentUrl |-> getDocumentUrl(NewDocumentId)]
    /\ issued' = issued + Issue(pc')
    /\ UNCHANGED <<doc, snap, structured, data, flat, headingsList, secIdx,
                   requests, passCount, boldRequests, chunkAt, paragraphs, idx,
                   failures, budget, doc0>>

ShareFails == DriverCallFails("shareDocument")

\* DriverCatches returning the new document's identifier with the error
DriverCatches_partialResult ==
    /\ pc = "threw"
    /\ outcome = Pending
    /\ pc' = "returned"
    /\ outcome' = [success |-> FALSE, error |-> log[Len(log)],
                   documentId |-> NewDocumentId]
    /\ issued' = issued + Issue(pc')
    /\ UNCHANGED <<doc, snap, structured, data, flat, headingsList, secIdx,
                   requests, passCount, boldRequests, chunkAt, paragraphs, idx,
                   failures, budget, log, doc0>>

\* the catch of testResumeGenerator
DriverCatches ==
    /\ pc = "threw"
    /\ outcome = Pending
    /\ pc' = "returned"
    /\ outcome' = [success |-> FALSE, error |-> log[Len(log)]]
    /\ issued' = issued + Issue(pc')
    /\ UNCHANGED <<doc, snap, structured, data, flat, headingsList, secIdx,
                   requests, passCount, boldRequests, chunkAt, paragraphs, idx,
                   failures, budget, log, doc0>>

InitDriver ==
    \E d \in TemplatesOf(PipelineParas, MaxPipelineParas), dat \in PipelineRecords :
        StartAt(d, TRUE, dat, flattenStructuredData(dat),
                buildHeadingsListFromData(dat), MaxFailures, "getAuthClient", 0,
                Pending)

NextDriver ==
    \/ AuthOk
    \/ AuthFails
    \/ CopyOk
    \/ CopyFails
    \/ Next
    \/ DriverResumes
    \/ ShareOk
    \/ ShareFails
    \/ DriverCatches

SpecDriver == InitDriver /\ [][NextDriver]_vars

----------------------------------------------------------------------------
(* Reading a document by its paragraphs (for the properties) *)

ParaText(d, s) == [j \in 1..(ParaLast(d, s) - s + 1) |-> d[s + j - 1].t]

ParaStartOf(d, j) == Max({s \in ParaStarts(d) : s <= j})

\* the declared heading a paragraph shows (1..5), or 0
HeadingShown(d, s) ==
    LET t == ToUpperCase(Trim(ParaText(d, s)))
        is == {i \in 1..NumSections : t = <<RESUME_SECTIONS[i]>>}
    IN  IF is = {} THEN 0 ELSE CHOOSE i \in is : TRUE

HeadingStarts(d) == {s \in ParaStarts(d) : HeadingShown(d, s) # 0}

\* the section a cell belongs to: the heading at or above it (0: none)
SectionAt(d, j) ==
    LET above == {s \in HeadingStarts(d) : s <= j}
    IN  IF above = {} THEN 0 ELSE HeadingShown(d, Max(above))

\* every declared heading heads at most one paragraph
HeadingsDistinct(d) ==
    \A s1, s2 \in HeadingStarts(d) :
        HeadingShown(d, s1) = HeadingShown(d, s2) => s1 = s2

Keep(d, keepCell(_)) ==
    LET kept == SortedSeq({j \in 1..Len(d) : keepCell(j)})
    IN  [n \in 1..Len(kept) |-> d[kept[n]]]

\* doc0 without the cells of the sections whose data is absent
WithoutAbsentSections ==
    LET keepCell(j) == SectionAt(doc0, j) = 0 \/ dataCheck(SectionAt(doc0, j), data)
    IN  Keep(doc0, keepCell)

AllCallsOk == \A n \in 1..Len(log) : log[n].ok

PrunerPcs == {"removeSection.get", "removeSection.batchUpdate"}

PrunerFinished == pc \notin PrunerPcs /\ pc # "threw"

----------------------------------------------------------------------------
(* Properties of removeEmptySections *)

C9Start(d, i) == Min({s \in HeadingStarts(d) : HeadingShown(d, s) = i})

C9End(d, i) ==
    LET later == {s \in HeadingStarts(d) :
                    s > C9Start(d, i) /\ HeadingShown(d, s) # i}
    IN  IF later = {} THEN Len(d) + 1 ELSE Min(later)

C9Found(d, i) == \E s \in HeadingStarts(d) : HeadingShown(d, s) = i

\* C9: when removeSection reads a document in which the absent section's
\* heading is found, it sends exactly one DeleteRange, from the heading
\* block's start to the end of the last block before the next block showing
\* another declared heading (the end of the final block when there is none);
\* no block showing another heading starts inside the range.
C9_PrunerRange ==
    [][(pc = "removeSection.get" /\ pc' # "threw" /\ C9Found(doc, secIdx))
        => /\ pc' = "removeSection.batchUpdate"
           /\ requests' = <<DeleteRange(C9Start(doc, secIdx), C9End(doc, secIdx))>>
           /\ \A s \in HeadingStarts(doc) :
                 HeadingShown(doc, s) # secIdx
                    => ~(requests'[1].startIndex <= s /\ s < requests'[1].endIndex)
      ]_vars

\* C9 witness: a DeleteRange is pending that stops short of a later heading.
C9_Witness ==
    /\ pc = "removeSection.batchUpdate"
    /\ secIdx = 1
    /\ TextOf(doc) = <<HD(1), NL, W(1), NL, HD(3), NL>>
    /\ requests = <<DeleteRange(1, 5)>>

----------------------------------------------------------------------------
(* Properties of removeEmptyBarLinesOneByOne *)

\* a paragraph's text without its line terminator
Line(d, s) == SelectSeq(ParaText(d, s), LAMBDA t : t # NL)

IsBlankPara(d, s) == Trim(ParaText(d, s)) = <<>>

\* the separator glyph alone, or with a single space on either side
IsBarPara(d, s) ==
    Line(d, s) \in {<<BAR>>, <<BAR, SP>>, <<SP, BAR>>, <<SP, BAR, SP>>}

\* the paragraph shows a heading of the active heading list
IsRetainedHeading(d, s) ==
    /\ headingsList # NoList
    /\ \E n \in 1..Len(headingsList) :
          ToUpperCase(headingsList[n]) = ToUpperCase(Trim(ParaText(d, s)))

\* the paragraph before / after the one starting at s is a retained heading
AfterRetainedHeading(d, s) ==
    s > 1 /\ IsRetainedHeading(d, ParaStartOf(d, s - 1))

BeforeRetainedHeading(d, s) ==
    ParaLast(d, s) < Len(d) /\ IsRetainedHeading(d, ParaLast(d, s) + 1)

\* the template cell at position j is still in the document
Survives(j) == \E n \in 1..Len(doc) : doc[n].o = j

SweeperPcs ==
    {"removeEmptyBarLines.get", "removeEmptyBarLines.get2",
     "removeEmptyBarLines.batchUpdate"}

BeforeSweeperPcs ==
    {"doReplacePlaceholders.get", "applyBoldMarkers.get",
     "removeEmptyMarkers.batchUpdate", "removeEmptyBarLines.get"}

SweepDeletesOk ==
    \A n \in 1..Len(log) :
        log[n].at = "removeEmptyBarLines.batchUpdate" => log[n].ok

SweepRan == \E n \in 1..Len(log) : log[n].at = "removeEmptyBarLines.get" /\ log[n].ok

SweeperFinished == SweepRan /\ pc \notin SweeperPcs /\ pc # "threw"

\* C2: (the sweep starts on the template: no earlier stage edits it, and)
\* at every moment of the sweep, every blank or bar paragraph of the document
\* as it was when the sweep started whose predecessor or successor there is
\* a retained heading is still in the document, whole.
C2_SweeperKeepsHeadingSpacing ==
    /\ pc \in BeforeSweeperPcs => doc = doc0
    /\ \A s \in ParaStarts(doc0) :
          ( /\ IsBlankPara(doc0, s) \/ IsBarPara(doc0, s)
            /\ AfterRetainedHeading(doc0, s) \/ BeforeRetainedHeading(doc0, s) )
          => \A j \in s..ParaLast(doc0, s) : Survives(j)

\* C2 witness: the sweep has deleted the bar that follows no heading and
\* kept the blank line above the retained heading.
C2_Witness ==
    /\ SweeperFinished /\ SweepDeletesOk
    /\ headingsList = << <<HD(1)>> >>
    /\ TextOf(doc0) = <<SP, BAR, SP, NL, NL, HD(1), NL>>
    /\ TextOf(doc) = <<NL, HD(1), NL>>
    /\ doc[1].o = 5

\* C8: once the sweep has finished with every delete batch succeeding, each
\* paragraph left that is blank or a bar is immediately after or before a
\* retained heading.
C8_SweeperLeavesOnlyHeadingSpacing ==
    (SweeperFinished /\ SweepDeletesOk)
        => \A s \in ParaStarts(doc) :
              (IsBlankPara(doc, s) \/ IsBarPara(doc, s))
                 => (AfterRetainedHeading(doc, s) \/ BeforeRetainedHeading(doc, s))

\* C8 witness (Scenario D): of two " | " paragraphs the one under the
\* retained heading is kept and the one after a text line is deleted.
C8_Witness ==
    /\ SweeperFinished /\ SweepDeletesOk
    /\ headingsList = << <<HD(1)>> >>
    /\ TextOf(doc0) = <<HD(1), NL, SP, BAR, SP, NL, SP, BAR, SP, NL>>
    /\ TextOf(doc) = <<HD(1), NL, SP, BAR, SP, NL>>
    /\ doc[3].o = 3

----------------------------------------------------------------------------
(* Properties of doReplacePlaceholders *)

\* the slot tokens {{name}} in the text of the paragraphs of d
SlotTokens(d) ==
    UNION { { SubSeq(ParaText(d, s), p, placeholderEnd(ParaText(d, s), p)) :
                p \in {q \in 1..Len(ParaText(d, s)) :
                          placeholderEnd(ParaText(d, s), q) # 0} } :
            s \in ParaStarts(d) }

ResolverBatchDone ==
    \E n \in 1..Len(log) : log[n].at = "doReplacePlaceholders.batchUpdate" /\ log[n].ok

\* C5: once the substitution batch of doReplacePlaceholders has succeeded,
\* no slot token that was in the text of the template is in the text of the
\* document.
C5_NoSlotTokenRemains ==
    ResolverBatchDone => SlotTokens(doc0) \cap SlotTokens(doc) = {}

----------------------------------------------------------------------------
(* Properties of the pipeline *)

LastCall == log[Len(log)]

\* removeEmptySections has changed nothing: the later stages start on doc0
NoPrunerEdit ==
    \A n \in 1..Len(log) : log[n].at = "removeSection.batchUpdate" => ~log[n].ok

\* C6: replacePlaceholders never ends in an exception after a batchUpdate
\* failed: whichever stage's batch it was, the failure stays inside the stage.
C6_BatchFailureNotPropagated ==
    \A n \in 1..Len(log) :
        (log[n].call = "batchUpdate" /\ ~log[n].ok) => pc # "threw"

\* the slot tokens of the paragraph of doc0 starting at s that are list
\* bullets without a value: <<first position, last position>>
EmptyBullets(s) ==
    LET t == ParaText(doc0, s)
    IN  { <<s + p - 1, s + placeholderEnd(t, p) - 1>> :
            p \in {q \in 1..Len(t) :
                     /\ placeholderEnd(t, q) # 0
                     /\ includesPoint(placeholderKey(SubSeq(t, q, placeholderEnd(t, q))))
                     /\ placeholderValue(flat,
                            placeholderKey(SubSeq(t, q, placeholderEnd(t, q)))) = <<>>} }

\* what the document holds in the place of the template cells from..to
InPlaceOf(from, to) ==
    LET here(n) == doc[n].o \in from..to
    IN  TextOf(Keep(doc, here))

\* C7: for a list-bullet slot token without a value, right after the
\* substitution batch the removal marker stands in the token's place, and
\* right after the batch of removeEmptyMarkers nothing of the paragraph that
\* held the token is left in the document.
C7_EmptyBulletLineGone ==
    \A s \in ParaStarts(doc0) : \A b \in EmptyBullets(s) :
        (NoPrunerEdit /\ AllCallsOk /\ Len(log) > 0) =>
            /\ LastCall.at = "doReplacePlaceholders.batchUpdate"
                  => InPlaceOf(b[1], b[2]) = <<RM>>
            /\ LastCall.at = "removeEmptyMarkers.batchUpdate"
                  => InPlaceOf(s, ParaLast(doc0, s)) = <<>>

\* right after the substitution batch the removal marker stands in the place
\* of every list-bullet slot token without a value
EmptyBulletMarked ==
    \A s \in ParaStarts(doc0) : \A b \in EmptyBullets(s) :
        (NoPrunerEdit /\ AllCallsOk /\ Len(log) > 0
            /\ LastCall.at = "doReplacePlaceholders.batchUpdate")
                  => InPlaceOf(b[1], b[2]) = <<RM>>

NoMarkerSpans(d) == \A s \in ParaStarts(d) : markerMatch(ParaText(d, s)) = <<>>

ResolverStylerBatches ==
    {"doReplacePlaceholders.batchUpdate", "applyBoldMarkers.batchUpdate",
     "applyBoldMarkers.chunk"}

ResolverStylerPcs ==
    ResolverStylerBatches \cup
        {"doReplacePlaceholders.get", "applyBoldMarkers.get",
         "applyBoldMarkers.get2", "applyBoldMarkers.get3"}

\* C10: when doReplacePlaceholders starts on a document without slot token
\* and without marker span, neither it nor applyBoldMarkers calls
\* batchUpdate, and the document is the same, text and styles, when
\* applyBoldMarkers has returned.
C10_NoTokensNoSpansIsNoOp ==
    (NoPrunerEdit /\ SlotTokens(doc0) = {} /\ NoMarkerSpans(doc0)) =>
        /\ \A n \in 1..Len(log) : log[n].at \notin ResolverStylerBatches
        /\ pc \in ResolverStylerPcs \cup {"removeEmptyMarkers.batchUpdate"}
              => doc = doc0

\* C10 witness: both stages have run on a template of a heading and a text
\* line, each with one read and nothing else.
C10_Witness ==
    /\ pc = "removeEmptyMarkers.batchUpdate"
    /\ TextOf(doc0) = <<HD(1), NL, W(1), NL>>
    /\ ~structured
    /\ doc = doc0
    /\ [n \in 1..Len(log) |-> log[n].at] =
           <<"doReplacePlaceholders.get", "applyBoldMarkers.get">>

----------------------------------------------------------------------------
(* Properties of applyBoldMarkers *)

IsDelimiter(t) == t.k \in {"open", "close"}

NoDelimiters(d) == \A j \in 1..Len(d) : ~IsDelimiter(d[j].t)

\* the spans of d that stand alone: an opening delimiter, a payload without
\* delimiter or line end, the closing delimiter of the same id:
\* <<position of the opening, position of the closing>>
Spans(d) ==
    { sp \in (1..Len(d)) \X (1..Len(d)) :
        /\ d[sp[1]].t.k = "open"
        /\ sp[2] > sp[1] + 1
        /\ d[sp[2]].t = CLOSE(d[sp[1]].t.i)
        /\ \A j \in (sp[1] + 1)..(sp[2] - 1) : ~IsDelimiter(d[j].t) /\ d[j].t # NL }

\* well-formed: every delimiter belongs to a span, and no id is used twice
WellFormedSpans(d) ==
    /\ \A j \in 1..Len(d) :
          IsDelimiter(d[j].t) => \E sp \in Spans(d) : j \in {sp[1], sp[2]}
    /\ \A sp1, sp2 \in Spans(d) : d[sp1[1]].t = d[sp2[1]].t => sp1 = sp2

Payload(d, sp) == [j \in 1..(sp[2] - sp[1] - 1) |-> d[sp[1] + j].t]

\* what replaced the span sp of doc0 is its payload, all of it bold
PayloadBold(sp) ==
    LET here(n) == doc[n].o = sp[1]
        now == Keep(doc, here)
    IN  /\ TextOf(now) = Payload(doc0, sp)
        /\ \A n \in 1..Len(now) : now[n].b

\* the payload's text also occurs in its paragraph, once the delimiters are
\* gone, at a place that overlaps the payload
SelfOverlapping(d, sp) ==
    LET s == ParaStartOf(d, sp[1])
        plain == SelectSeq(ParaText(d, s), LAMBDA t : ~IsDelimiter(t))
        at == sp[1] - s + 1 - Cardinality({j \in s..(sp[1] - 1) : IsDelimiter(d[j].t)})
        len == Len(Payload(d, sp))
    IN  \E q \in 1..Len(plain) :
            q # at /\ q > at - len /\ q < at + len /\ OccursAt(Payload(d, sp), plain, q)

StylerPcs ==
    {"applyBoldMarkers.get", "applyBoldMarkers.batchUpdate", "applyBoldMarkers.get2",
     "applyBoldMarkers.chunk", "applyBoldMarkers.get3"}

StylerRan == \E n \in 1..Len(log) : log[n].at = "applyBoldMarkers.get" /\ log[n].ok

StylerReturned == StylerRan /\ pc \notin StylerPcs /\ pc # "threw"

StripBatches ==
    Cardinality({n \in 1..Len(log) : log[n].at = "applyBoldMarkers.batchUpdate"})

\* C3 as stated: whenever applyBoldMarkers has returned on a template whose
\* marker spans are well-formed, no delimiter is left and the payload of
\* every span is bold.
C3_AllPayloadsBold ==
    (StylerReturned /\ WellFormedSpans(doc0)) =>
        /\ NoDelimiters(doc)
        /\ \A sp \in Spans(doc0) : PayloadBold(sp)

\* C3 amended: whenever applyBoldMarkers has returned with every call
\* succeeding on a template of at most 50 well-formed marker spans, no
\* delimiter is left, and the payload of every span is bold unless it is
\* blank or its text occurs in its paragraph overlapping it.
C3_PayloadsBoldWithinCeiling ==
    (StylerReturned /\ AllCallsOk /\ WellFormedSpans(doc0)
        /\ Cardinality(Spans(doc0)) <= MaxPasses) =>
        /\ NoDelimiters(doc)
        /\ \A sp \in Spans(doc0) :
              (Trim(Payload(doc0, sp)) # <<>> /\ ~SelfOverlapping(doc0, sp))
                  => PayloadBold(sp)

\* C3 witness: two spans, one of them in the middle of a paragraph, both
\* stripped and their payloads bold.
C3_Witness ==
    /\ StylerReturned /\ AllCallsOk
    /\ TextOf(doc0) = <<W(2), SP, OPEN(2), W(1), SP, W(2), CLOSE(2), NL,
                        OPEN(1), W(1), CLOSE(1), NL>>
    /\ TextOf(doc) = <<W(2), SP, W(1), SP, W(2), NL, W(1), NL>>
    /\ [n \in 1..Len(doc) |-> doc[n].b] =
           <<FALSE, FALSE, TRUE, TRUE, TRUE, FALSE, TRUE, FALSE>>

\* C4: applyBoldMarkers never makes more than 50 passes nor sends more than
\* 50 delimiter-stripping batches, and once started it ends (by returning or
\* by an exception).
C4_StylerTerminatesWithinCeiling ==
    /\ [](passCount <= MaxPasses /\ StripBatches <= MaxPasses)
    /\ (pc \in StylerPcs) ~> (pc \notin StylerPcs)

\* C4 witness: on a template of 51 spans applyBoldMarkers has returned after
\* 50 passes, the last span still in the document.
C4_Witness ==
    /\ StylerReturned
    /\ passCount = MaxPasses /\ StripBatches = MaxPasses
    /\ Cardinality(Spans(doc0)) = MaxPasses + 1
    /\ Cardinality(Spans(doc)) = 1

----------------------------------------------------------------------------
(* Properties of replacePlaceholders as a whole *)

\* the stage a remote call belongs to (0: a call of the driver)
StageOf(at) ==
    CASE at \in {"removeSection.get", "removeSection.batchUpdate"} -> 1
      [] at \in {"doReplacePlaceholders.get", "doReplacePlaceholders.batchUpdate"} -> 2
      [] at \in {"applyBoldMarkers.get", "applyBoldMarkers.batchUpdate",
                 "applyBoldMarkers.get2", "applyBoldMarkers.chunk",
                 "applyBoldMarkers.get3"} -> 3
      [] at = "removeEmptyMarkers.batchUpdate" -> 4
      [] at \in {"removeEmptyBarLines.get", "removeEmptyBarLines.get2",
                 "removeEmptyBarLines.batchUpdate"} -> 5
      [] at = "fixCompanyLocationBars.batchUpdate" -> 6
      [] OTHER -> 0

StagesRun == {StageOf(log[n].at) : n \in 1..Len(log)}

\* C11: the remote calls of a run come stage by stage in the order
\* removeEmptySections, doReplacePlaceholders, applyBoldMarkers,
\* removeEmptyMarkers, removeEmptyBarLinesOneByOne, fixCompanyLocationBars:
\* a call of an earlier stage never follows a call of a later one, and the
\* call being awaited is never of an earlier stage than a call already made.
C11_StagesInOrder ==
    /\ \A m, n \in 1..Len(log) :
          m < n => StageOf(log[m].at) <= StageOf(log[n].at)
    /\ (pc \notin Terminated /\ Len(log) > 0)
          => StageOf(log[Len(log)].at) <= StageOf(pc)

\* C11 witness: a run that went through all six stages.
C11_Witness ==
    /\ pc = "done"
    /\ StagesRun = 1..6

OffsetRequest(r) == r.op \in {"deleteContentRange", "updateTextStyle"}

TextChanging(r) == r.op \in {"replaceAllText", "deleteContentRange"}

HasOffsets(call) ==
    /\ call.call = "batchUpdate"
    /\ \E k \in 1..Len(call.requests) : OffsetRequest(call.requests[k])

ChangesText(call) ==
    /\ call.call = "batchUpdate"
    /\ \E k \in 1..Len(call.requests) : TextChanging(call.requests[k])

\* a document without its styles: what offsets depend on
Unstyled(d) == [n \in 1..Len(d) |-> [t |-> d[n].t, o |-> d[n].o]]

\* C12: every batch holding a deleteContentRange or an updateTextStyle comes
\* after a successful get with no text-changing batch between the two, holds
\* no text-changing request before an offset-addressed one, and while it is
\* awaited the snapshot its offsets come from has the text of the document.
C12_OffsetsFromFreshSnapshot ==
    /\ \A n \in 1..Len(log) :
          HasOffsets(log[n]) =>
             /\ \E m \in 1..(n - 1) :
                   /\ log[m].call = "get" /\ log[m].ok
                   /\ \A k \in (m + 1)..(n - 1) : ~ChangesText(log[k])
             /\ \A j, k \in 1..Len(log[n].requests) :
                   (j < k /\ TextChanging(log[n].requests[j]))
                      => ~OffsetRequest(log[n].requests[k])
    /\ (pc \in {"removeSection.batchUpdate", "applyBoldMarkers.chunk",
                "removeEmptyBarLines.batchUpdate"})
          => Unstyled(snap) = Unstyled(doc)

\* C12 witness: a delete of the sweep sent after a style chunk, itself sent
\* after a successful replacement.
C12_Witness ==
    \E k, m, n \in 1..Len(log) :
        /\ k < m /\ m < n
        /\ log[k].at = "applyBoldMarkers.batchUpdate" /\ log[k].ok
        /\ log[m].at = "applyBoldMarkers.chunk" /\ log[m].ok
        /\ log[n].at = "removeEmptyBarLines.batchUpdate" /\ log[n].ok

\* the remote calls issued and not completed
Outstanding == issued - Len(log)

----------------------------------------------------------------------------
(* Properties of the requests of doReplacePlaceholders *)

\* v without its "**" pairs: the stars are paired off from the left, first
\* with second, third with fourth; an odd last one stays
Unstar(v) ==
    LET stars == {j \in 1..Len(v) : v[j] = STAR}
        rank(j) == Cardinality({i \in stars : i <= j})
        paired == 2 * (Cardinality(stars) \div 2)
        kept == SortedSeq({j \in 1..Len(v) : v[j] # STAR \/ rank(j) > paired})
    IN  [n \in 1..Len(kept) |-> v[kept[n]]]

\* the replacement the three rules give for the token <<LB, name, RB>>
Expected(token) ==
    LET name == token[2]
        value == IF name \in DOMAIN flat THEN flat[name] ELSE <<>>
    IN  IF name.k \in {"experience_point", "project_point"} /\ value = <<>>
        THEN <<RM>>
        ELSE IF name.k \in {"technical_skills", "language_skills"}
             THEN value
             ELSE Unstar(value)

\* C14: every request of the substitution batch replaces a token <<LB, name,
\* RB>> by what the three rules give for it, in their order: the removal
\* marker for a list bullet without value, the value as it is for a skills
\* field, and otherwise the value without its "**" pairs.
C14_ThreeRules ==
    pc = "doReplacePlaceholders.batchUpdate" =>
        \A n \in 1..Len(requests) :
            /\ Len(requests[n].text) = 3
            /\ requests[n] = ReplaceText(requests[n].text, Expected(requests[n].text))

\* C14 witness: a name with emphasis and the skills line with emphasis and
\* bars: the first loses its stars, the second keeps everything.
C14_Witness ==
    /\ pc = "doReplacePlaceholders.batchUpdate"
    /\ requests =
          << ReplaceText(<<LB, KEY("name", 0), RB>>, <<W(2), SP, W(3)>>),
             ReplaceText(<<LB, KEY("technical_skills", 0), RB>>,
                         <<W(2), SP, BAR, SP, STAR, W(3), STAR>>) >>

\* further cases of the rules that are reached: a list bullet without value,
\* and a list bullet whose value has emphasis
C14_BulletCases ==
    pc = "doReplacePlaceholders.batchUpdate"
        /\ requests \in
              { << ReplaceText(<<LB, KEY("experience_point", 13), RB>>, <<RM>>) >>,
                << ReplaceText(<<LB, KEY("experience_point", 13), RB>>, <<W(3)>>) >> }
        /\ KEY("experience_point", 13) \in DOMAIN flat
        /\ flat[KEY("experience_point", 13)] \in {<<>>, <<STAR, W(3), STAR>>}

ResolverBatches ==
    {n \in 1..Len(log) : log[n].at = "doReplacePlaceholders.batchUpdate"}

ResolverRead ==
    \E n \in 1..Len(log) : log[n].at = "doReplacePlaceholders.get" /\ log[n].ok

\* the batch doReplacePlaceholders is about to send or has sent: <<>> if none
ResolverBatch ==
    IF pc = "doReplacePlaceholders.batchUpdate" THEN requests
    ELSE IF ResolverBatches # {}
         THEN log[CHOOSE n \in ResolverBatches : TRUE].requests
         ELSE <<>>

\* one replaceAllText request for each of the tokens, no two for the same
OneRequestEach(reqs, tokens) ==
    /\ \A n \in 1..Len(reqs) : reqs[n].op = "replaceAllText"
    /\ {reqs[n].text : n \in 1..Len(reqs)} = tokens
    /\ Len(reqs) = Cardinality(tokens)

\* C15: once doReplacePlaceholders has read the document, it sends at most
\* one batch; the batch holds one replaceAllText request for each distinct
\* slot token in the text of the document and nothing else; and when the
\* text holds no slot token there is no batch.
C15_OneRequestPerToken ==
    ResolverRead =>
        /\ Cardinality(ResolverBatches) <= 1
        /\ OneRequestEach(ResolverBatch, SlotTokens(doc0))
        /\ SlotTokens(doc0) = {}
              => (ResolverBatches = {} /\ pc # "doReplacePlaceholders.batchUpdate")

\* the same for the tokens that lie inside one text run
C15_OneRequestPerTokenInARun ==
    ResolverRead =>
        /\ Cardinality(ResolverBatches) <= 1
        /\ OneRequestEach(ResolverBatch,
                          {m[2] : m \in foundPlaceholders(Content(doc0))})
        /\ SlotTokens(doc0) = {}
              => (ResolverBatches = {} /\ pc # "doReplacePlaceholders.batchUpdate")

----------------------------------------------------------------------------
(* Properties of fixCompanyLocationBars *)

\* the value of a field, "" when the mapping has no such name
ValueOf(name) == IF name \in DOMAIN flat THEN flat[name] ELSE <<>>

\* the request for the pair of fields a, b: none unless both have a value
PairRequest(a, b) ==
    IF ValueOf(a) # <<>> /\ ValueOf(b) # <<>>
    THEN <<ReplaceText(ValueOf(a) \o <<SP>> \o ValueOf(b),
                       ValueOf(a) \o <<SP, BAR, SP>> \o ValueOf(b))>>
    ELSE <<>>

ExpectedFixerRequests ==
    Concat([i \in 1..5 |-> PairRequest(KEY("company", i), KEY("company_location", i))])
    \o Concat([i \in 1..5 |-> PairRequest(KEY("institution", i), KEY("degree", i))])

FixerBatches ==
    {n \in 1..Len(log) : log[n].at = "fixCompanyLocationBars.batchUpdate"}

\* C16: fixCompanyLocationBars sends, as the last call of the pipeline, one
\* batch holding the request "v1 v2" -> "v1 | v2" of every pair company_i /
\* company_location_i and institution_i / degree_i (i in 1..5) whose two
\* values are non-empty, and no other request; it sends nothing when there
\* is no such pair; and once the batch has succeeded no "v1 v2" of such a
\* pair is left in the document.
C16_FixerRequests ==
    /\ pc = "fixCompanyLocationBars.batchUpdate"
          => (requests = ExpectedFixerRequests /\ requests # <<>>)
    /\ \A n \in FixerBatches :
          n = Len(log) /\ log[n].requests = ExpectedFixerRequests
    /\ pc = "done" => (FixerBatches # {} <=> ExpectedFixerRequests # <<>>)
    /\ (pc = "done" /\ FixerBatches # {}) =>
          \A k \in 1..Len(ExpectedFixerRequests) :
              ~Includes(TextOf(doc), ExpectedFixerRequests[k].text)

\* C16 witness (Scenario B): the template line "{{company_1}}
\* {{company_location_1}}" has become "company | location".
C16_Witness ==
    /\ pc = "done"
    /\ TextOf(doc0) = <<LB, KEY("company", 1), RB, SP, LB, KEY("company_location", 1),
                        RB, NL>>
    /\ TextOf(doc) = <<W(4), SP, BAR, SP, W(5), NL>>
    /\ Len(log[Len(log)].requests) = 2

----------------------------------------------------------------------------
(* removeSection with nothing to remove *)

\* the absent sections after section i, in the order of RESUME_SECTIONS
AbsentAfter(i) == {j \in (i + 1)..NumSections : ~dataCheck(j, data)}

\* removeSection returned for section i and removeEmptySections goes on
GoesOnAfter(i) ==
    IF AbsentAfter(i) # {}
    THEN pc' = "removeSection.get" /\ secIdx' = Min(AbsentAfter(i))
    ELSE pc' = "doReplacePlaceholders.get"

----------------------------------------------------------------------------
(* Which stages read the document before they edit it *)

\* the calls with which a stage begins
StageStarts ==
    {n \in 1..Len(log) : n = 1 \/ StageOf(log[n - 1].at) # StageOf(log[n].at)}

\* removeEmptySections, doReplacePlaceholders, applyBoldMarkers and
\* removeEmptyBarLinesOneByOne
ReadingStages == {1, 2, 3, 5}

\* removeEmptyMarkers and fixCompanyLocationBars
TextMatchStages == {4, 6}

\* C18 as stated: the first call of every stage that makes a call is a get.
C18_EveryStageReadsFirst ==
    \A n \in StageStarts : log[n].call = "get"

\* C18: removeEmptySections, doReplacePlaceholders, applyBoldMarkers and
\* removeEmptyBarLinesOneByOne begin with a get, before their first batch;
\* removeEmptyMarkers and fixCompanyLocationBars make exactly one call each,
\* a batch of text-matching replacements without offsets, and never read
\* the document.
C18_OffsetStagesReadFirst ==
    /\ \A n \in StageStarts :
          StageOf(log[n].at) \in ReadingStages => log[n].call = "get"
    /\ \A n \in 1..Len(log) :
          StageOf(log[n].at) \in TextMatchStages
             => /\ n \in StageStarts
                /\ log[n].call = "batchUpdate"
                /\ ~HasOffsets(log[n])
                /\ \A m \in 1..Len(log) :
                      StageOf(log[m].at) = StageOf(log[n].at) => m = n

\* C18 witness: a run through all six stages, in which removeEmptyMarkers
\* and fixCompanyLocationBars each sent their batch straight after the
\* previous stage's last call.
C18_Witness ==
    /\ pc = "done"
    /\ \A st \in 1..6 : \E n \in StageStarts : StageOf(log[n].at) = st /\ log[n].ok
    /\ \E n \in StageStarts : StageOf(log[n].at) = 4 /\ StageOf(log[n - 1].at) = 3
    /\ StageOf(log[Len(log)].at) = 6 /\ StageOf(log[Len(log) - 1].at) = 5

----------------------------------------------------------------------------
(* Properties of testResumeGenerator *)

AuthFailed == Len(log) >= 1 /\ log[1].at = "getAuthClient" /\ ~log[1].ok

\* C19: when getAuthClient fails, it is the only call the run ever issues
\* (no copy, no get, no batchUpdate, no share), the document is untouched,
\* control is in the catch or has returned, and what the catch returns is
\* the failure outcome carrying that error.
C19_AuthFailureAborts ==
    /\ [](AuthFailed =>
            /\ Len(log) = 1
            /\ issued = 1
            /\ doc = doc0
            /\ pc \in {"threw", "returned"}
            /\ pc = "threw" => outcome = Pending
            /\ pc = "returned" => outcome = [success |-> FALSE, error |-> log[1]])
    /\ [][(AuthFailed /\ pc = "threw")
            => (pc' = "returned" /\ log' = log /\ issued' = issued)]_vars

\* C19 witness: the run has returned after getAuthClient failed.
C19_Witness ==
    /\ AuthFailed
    /\ pc = "returned"
    /\ outcome = [success |-> FALSE, error |-> DriverCall("getAuthClient", FALSE)]

\* the awaits whose rejection no stage catches
UncaughtAt ==
    {"getAuthClient", "copyTemplate", "shareDocument",
     "doReplacePlaceholders.batchUpdate", "applyBoldMarkers.batchUpdate",
     "fixCompanyLocationBars.batchUpdate"}

Uncaught(call) == ~call.ok /\ (call.call = "get" \/ call.at \in UncaughtAt)

\* a call of the run threw into testResumeGenerator
SomethingThrew == \E n \in 1..Len(log) : Uncaught(log[n])

\* authentication, copy, the pipeline to its end and sharing, nothing thrown
AllCompleted ==
    /\ ~SomethingThrew
    /\ Len(log) >= 4
    /\ log[1] = DriverCall("getAuthClient", TRUE)
    /\ log[2] = DriverCall("copyTemplate", TRUE)
    /\ log[Len(log)] = DriverCall("shareDocument", TRUE)
    /\ \E n \in 3..(Len(log) - 1) : log[n].at = "removeEmptyMarkers.batchUpdate"
    /\ \A n \in 3..(Len(log) - 1) : StageOf(log[n].at) \in 1..6

\* C20: a run has no outcome until it returns and then exactly one, which
\* never changes; it is the success outcome, carrying the new document's
\* identifier and URL, exactly when authentication, copy, the whole
\* pipeline and sharing completed and nothing threw; otherwise it is the
\* failure outcome, of the two fields success and error only, with the
\* error of the call that threw.
C20_OneTerminalOutcome ==
    /\ [](/\ pc = "returned" <=> outcome # Pending
          /\ pc = "returned" =>
                IF AllCompleted
                THEN outcome = [success |-> TRUE, documentId |-> NewDocumentId,
                                documentUrl |-> getDocumentUrl(NewDocumentId)]
                ELSE /\ SomethingThrew
                     /\ Uncaught(log[Len(log)])
                     /\ DOMAIN outcome = {"success", "error"}
                     /\ outcome.success = FALSE
                     /\ outcome.error = log[Len(log)])
    /\ [][pc = "returned" => FALSE]_vars

\* C20 witness: the copy was made, a later call threw, and the failure
\* outcome returned does not carry the copy's identifier.
C20_Witness ==
    /\ pc = "returned"
    /\ Len(log) > 2
    /\ log[2] = DriverCall("copyTemplate", TRUE)
    /\ outcome.success = FALSE
    /\ "documentId" \notin DOMAIN outcome

\* a successful run in which a stage caught a failed batch
C20_SuccessAfterCaughtFailure ==
    /\ pc = "returned"
    /\ outcome.success
    /\ \E n \in 1..Len(log) : ~log[n].ok

----------------------------------------------------------------------------
(* The passes of applyBoldMarkers *)

\* the closing delimiters that end a match of the marker pattern begun at j:
\* same id, same paragraph, at least one unit of payload between
ClosesFor(d, j) ==
    {q \in (j + 2)..Len(d) :
        d[q].t = CLOSE(d[j].t.i) /\ \A m \in j..(q - 1) : d[m].t # NL}

\* the positions of d where the marker pattern matches
MatchStarts(d) == {j \in 1..Len(d) : d[j].t.k = "open" /\ ClosesFor(d, j) # {}}

\* the leftmost match of the first paragraph that has one
FirstMatch(d) ==
    LET j == Min(MatchStarts(d))
        q == Min(ClosesFor(d, j))
    IN  [entire |-> [n \in 1..(q - j + 1) |-> d[j + n - 1].t],
         payload |-> [n \in 1..(q - j - 1) |-> d[j + n].t]]

\* the steps after which the while loop's test and scan run
ScanStep ==
    /\ pc \in {"applyBoldMarkers.get", "applyBoldMarkers.get2", "applyBoldMarkers.get3"}
    /\ pc' \notin {"threw", "applyBoldMarkers.chunk"}

\* C21: every delimiter-stripping batch holds exactly one ReplaceText
\* request, and there are never more of these batches than passes; the
\* request of a pass replaces the leftmost match of the marker pattern in
\* the first paragraph, in document order, of the snapshot just read that
\* has a match, by its payload; and a scan of a snapshot without a match
\* ends applyBoldMarkers with no further call of it.
C21_OneStripRequestPerPass ==
    /\ [](/\ \A n \in 1..Len(log) :
                log[n].at = "applyBoldMarkers.batchUpdate" => Len(log[n].requests) = 1
          /\ StripBatches <= passCount
          /\ pc = "applyBoldMarkers.batchUpdate" =>
                /\ MatchStarts(snap) # {}
                /\ requests = <<ReplaceText(FirstMatch(snap).entire,
                                            FirstMatch(snap).payload)>>)
    /\ [][ScanStep =>
            IF MatchStarts(doc) = {}
            THEN pc' \notin StylerPcs /\ log' = Append(log, GetCall(pc))
            ELSE passCount < MaxPasses => pc' = "applyBoldMarkers.batchUpdate"]_vars

\* C21 witness: two paragraphs hold a span, the first of them in its middle;
\* the first pass is about to strip that one.
C21_Witness ==
    /\ pc = "applyBoldMarkers.batchUpdate"
    /\ passCount = 1
    /\ TextOf(snap) = <<W(2), SP, OPEN(2), W(1), SP, W(2), CLOSE(2), NL,
                        OPEN(1), W(1), CLOSE(1), NL>>
    /\ requests = <<ReplaceText(<<OPEN(2), W(1), SP, W(2), CLOSE(2)>>,
                                <<W(1), SP, W(2)>>)>>

\* the loop has ended on a snapshot without a match, after two passes
C21_StopsWhenNoneFound ==
    /\ pc = "removeEmptyMarkers.batchUpdate"
    /\ passCount = 3
    /\ StripBatches = 2
    /\ MatchStarts(snap) = {}

\* the number of marker spans in d: the places where the marker pattern
\* matches
SpanCount(d) == Cardinality(MatchStarts(d))

\* C22: every delimiter-stripping batch that succeeds leaves fewer marker
\* spans in the document than there were; on a template whose spans are
\* well-formed the count goes down by exactly one, and applyBoldMarkers
\* sends at most as many stripping batches as the template has spans.
C22_EachPassRemovesASpan ==
    /\ [][(pc = "applyBoldMarkers.batchUpdate" /\ pc' # "threw")
            => /\ SpanCount(doc') < SpanCount(doc)
               /\ \/ SpanCount(doc') = SpanCount(doc) - 1
                  \/ ~WellFormedSpans(doc0)]_vars
    /\ [](StripBatches <= SpanCount(doc0) \/ ~WellFormedSpans(doc0))

\* C22 witness: a template of 50 well-formed spans, all stripped in 50
\* passes.
C22_Witness ==
    /\ StylerReturned
    /\ WellFormedSpans(doc0)
    /\ SpanCount(doc0) = MaxPasses
    /\ StripBatches = MaxPasses
    /\ SpanCount(doc) = 0

----------------------------------------------------------------------------
(* The style requests of a pass *)

\* the text s stands at offset a of d, inside one text run: one paragraph,
\* one bold flag
InOneRun(d, s, a) ==
    /\ a >= 1 /\ a + Len(s) - 1 <= Len(d)
    /\ \A n \in 1..Len(s) : d[a + n - 1].t = s[n]
    /\ \A m \in a..(a + Len(s) - 2) : d[m].t # NL /\ d[m].b = d[m + 1].b

\* a and b are offsets of the same text run of d
SameRun(d, a, b) ==
    \A m \in a..(b - 1) : d[m].t # NL /\ d[m].b = d[m + 1].b

\* reqs are the style requests for the occurrences of s in the runs of d,
\* taken from the left of each run without overlap
StylesOccurrences(reqs, d, s) ==
    /\ \A n \in 1..Len(reqs) :
          /\ reqs[n].op = "updateTextStyle"
          /\ reqs[n].endIndex = reqs[n].startIndex + Len(s)
          /\ InOneRun(d, s, reqs[n].startIndex)
    /\ \A m, n \in 1..Len(reqs) :
          m < n => reqs[m].endIndex <= reqs[n].startIndex
    /\ \A a \in 1..Len(d) :
          InOneRun(d, s, a) =>
             \E n \in 1..Len(reqs) :
                /\ reqs[n].startIndex <= a
                /\ a < reqs[n].endIndex
                /\ SameRun(d, reqs[n].startIndex, a)

\* C23: when the re-fetch after a stripping batch returns and the payload
\* put in is not blank, the style requests of the pass are, in document
\* order, one bold request for each occurrence of the payload inside a text
\* run of the document just read, occurrences counted from the left of the
\* run without overlap, each range exactly the payload's units there,
\* wherever in the document the occurrence is; they are sent if there is
\* any.  A blank payload gets no style request.
C23_StyleRequestPerOccurrence ==
    [][(pc = "applyBoldMarkers.get2" /\ pc' # "threw") =>
          IF Trim(requests[1].replaceText) = <<>>
          THEN boldRequests' = <<>> /\ pc' # "applyBoldMarkers.chunk"
          ELSE /\ StylesOccurrences(boldRequests', doc, requests[1].replaceText)
               /\ boldRequests' # <<>> <=> pc' = "applyBoldMarkers.chunk"
               /\ pc' = "applyBoldMarkers.chunk" => chunkAt' = 0
      ]_vars

\* C23 witness: the payload of the span also stands in another paragraph,
\* and both places are about to be styled.
C23_Witness ==
    /\ pc = "applyBoldMarkers.chunk"
    /\ chunkAt = 0
    /\ TextOf(doc0) = <<OPEN(1), W(1), CLOSE(1), NL, W(1), SP, W(2), NL>>
    /\ TextOf(snap) = <<W(1), NL, W(1), SP, W(2), NL>>
    /\ boldRequests = <<ApplyStyle(1, 2), ApplyStyle(3, 4)>>

\* the payload overlaps an earlier occurrence of its own text: one request,
\* for the occurrence on the left
C23_OverlapCase ==
    /\ pc = "applyBoldMarkers.chunk"
    /\ TextOf(snap) = <<W(1), SP, W(1), SP, W(1), NL>>
    /\ boldRequests = <<ApplyStyle(1, 4)>>

----------------------------------------------------------------------------
(* The style batches of a pass *)

\* the call that read the snapshot the style requests were computed from
LastGet2 == Max({n \in 1..Len(log) : log[n].at = "applyBoldMarkers.get2"})

\* the style batches sent since, in the order sent
ChunksSent ==
    SelectSeq(SubSeq(log, LastGet2 + 1, Len(log)),
              LAMBDA c : c.at = "applyBoldMarkers.chunk")

\* the requests of these batches, one after the other
SentSoFar == Concat([n \in 1..Len(ChunksSent) |-> ChunksSent[n].requests])

\* C24: the style batches of a pass hold the computed requests in their
\* order, each request in exactly one batch: what has been sent is always
\* the beginning of the computed list, all of it once the last batch is
\* sent; every batch holds 10 requests except that the last may hold fewer
\* (never none); a style batch is followed by the next style batch or by a
\* re-read of the document, and a stripping batch always follows a read.
C24_StyleBatchesOfTen ==
    /\ pc = "applyBoldMarkers.chunk" =>
          /\ chunkAt < Len(boldRequests)
          /\ SentSoFar = SubSeq(boldRequests, 1, chunkAt)
          /\ \A n \in 1..Len(ChunksSent) : Len(ChunksSent[n].requests) = BATCH_SIZE
    /\ pc = "applyBoldMarkers.get3" =>
          /\ SentSoFar = boldRequests
          /\ ChunksSent # <<>>
          /\ \A n \in 1..Len(ChunksSent) :
                /\ Len(ChunksSent[n].requests) \in 1..BATCH_SIZE
                /\ n < Len(ChunksSent) => Len(ChunksSent[n].requests) = BATCH_SIZE
    /\ \A n \in 1..Len(log) :
          /\ (log[n].at = "applyBoldMarkers.chunk" /\ n < Len(log))
                => log[n + 1].at \in {"applyBoldMarkers.chunk", "applyBoldMarkers.get3"}
          /\ log[n].at = "applyBoldMarkers.batchUpdate"
                => (n > 1 /\ log[n - 1].call = "get" /\ log[n - 1].ok)
    /\ (Len(log) > 0 /\ log[Len(log)].at = "applyBoldMarkers.chunk")
          => pc \in {"applyBoldMarkers.chunk", "applyBoldMarkers.get3"}

\* C24 witness: twelve style requests have gone out as a batch of ten and a
\* batch of two, and the document is being re-read.
C24_Witness ==
    /\ pc = "applyBoldMarkers.get3"
    /\ Len(boldRequests) = BATCH_SIZE + 2
    /\ Len(ChunksSent) = 2
    /\ Len(ChunksSent[1].requests) = BATCH_SIZE
    /\ Len(ChunksSent[2].requests) = 2

----------------------------------------------------------------------------
(* Failures a stage catches *)

CaughtAt ==
    {"removeSection.batchUpdate", "applyBoldMarkers.chunk",
     "removeEmptyMarkers.batchUpdate", "removeEmptyBarLines.batchUpdate"}

\* the step in which the awaited batch of one of these places is rejected
CaughtFailure ==
    /\ pc \in CaughtAt
    /\ Len(log') = Len(log) + 1
    /\ ~log'[Len(log')].ok

\* fixCompanyLocationBars is next (its batch, or the end when it has none)
FixerIsNext == pc' \in {"fixCompanyLocationBars.batchUpdate", "done"}

\* C25: when the delete batch of removeSection or of
\* removeEmptyBarLinesOneByOne, the batch of removeEmptyMarkers or a style
\* chunk of applyBoldMarkers is rejected, the document stays as it was and
\* the stage goes on as after a success: removeEmptySections with the next
\* absent section, the chunk loop with the next chunk (then the re-read),
\* the sweep with the next recorded paragraph, replacePlaceholders with the
\* stage after removeEmptyMarkers; no exception leaves the stage.
C25_CaughtFailureAbandonsOneEdit ==
    /\ [][CaughtFailure =>
            /\ doc' = doc
            /\ pc' # "threw"
            /\ pc = "removeSection.batchUpdate" => GoesOnAfter(secIdx)
            /\ pc = "applyBoldMarkers.chunk" =>
                  /\ boldRequests' = boldRequests
                  /\ chunkAt' = chunkAt + BATCH_SIZE
                  /\ IF chunkAt + BATCH_SIZE < Len(boldRequests)
                     THEN pc' = "applyBoldMarkers.chunk"
                     ELSE pc' = "applyBoldMarkers.get3"
            /\ pc = "removeEmptyMarkers.batchUpdate" =>
                  IF headingsList # NoList
                  THEN pc' = "removeEmptyBarLines.get"
                  ELSE FixerIsNext
            /\ pc = "removeEmptyBarLines.batchUpdate" =>
                  /\ paragraphs' = paragraphs
                  /\ idx' = idx + 1
                  /\ IF idx + 1 < Len(paragraphs)
                     THEN pc' = "removeEmptyBarLines.get2"
                     ELSE FixerIsNext
          ]_vars
    /\ [](pc = "threw" => Uncaught(log[Len(log)]))

\* C25 witness: a delete of the sweep was rejected, a later delete of the
\* same sweep succeeded, and the pipeline has ended normally.
C25_Witness ==
    /\ pc = "done"
    /\ \E m, n \in 1..Len(log) :
          /\ m < n
          /\ log[m].at = "removeEmptyBarLines.batchUpdate" /\ ~log[m].ok
          /\ log[n].at = "removeEmptyBarLines.batchUpdate" /\ log[n].ok

----------------------------------------------------------------------------
(* The order of the sweep *)

\* the paragraph of d that starts at offset st ends before offset en
IsParagraphAt(d, st, en) == st \in ParaStarts(d) /\ ParaLast(d, st) + 1 = en

\* the reads of the sweep's loop made so far: one per visit
Visits ==
    Cardinality({n \in 1..Len(log) : log[n].at = "removeEmptyBarLines.get2" /\ log[n].ok})

\* the candidates the sweep has not visited yet
Unvisited ==
    {n \in 1..Len(paragraphs) :
        n > idx + (IF pc = "removeEmptyBarLines.batchUpdate" THEN 1 ELSE 0)}

\* C26: removeEmptyBarLinesOneByOne records every paragraph of its first
\* snapshot once, in strictly descending order of start offset, and visits
\* them in that order, one read per visit; every candidate not yet visited
\* is still a paragraph of the document at its recorded offsets, so the
\* block found at a visit starts at the recorded start; a delete is of the
\* visited candidate's recorded range and lies behind every candidate not
\* yet visited.
C26_SweepDescending ==
    /\ [][(pc = "removeEmptyBarLines.get" /\ pc' # "threw") =>
            /\ {paragraphs'[n].startIndex : n \in 1..Len(paragraphs')} = ParaStarts(doc)
            /\ Len(paragraphs') = Cardinality(ParaStarts(doc))
            /\ idx' = 0]_vars
    /\ [][(pc = "removeEmptyBarLines.get2" /\ pc' # "threw") =>
            /\ IsParagraphAt(doc, paragraphs[idx + 1].startIndex,
                             paragraphs[idx + 1].endIndex)
            /\ paragraphs' = paragraphs
            /\ pc' = "removeEmptyBarLines.batchUpdate" =>
                  requests' = <<DeleteRange(paragraphs[idx + 1].startIndex,
                                            paragraphs[idx + 1].endIndex)>>]_vars
    /\ [](pc \in {"removeEmptyBarLines.get2", "removeEmptyBarLines.batchUpdate"} =>
            /\ \A m, n \in 1..Len(paragraphs) :
                  m < n => paragraphs[m].startIndex > paragraphs[n].startIndex
            /\ Visits = Len(paragraphs) - Cardinality(Unvisited)
            /\ idx < Len(paragraphs)
            /\ \A n \in Unvisited :
                  /\ IsParagraphAt(doc, paragraphs[n].startIndex, paragraphs[n].endIndex)
                  /\ pc = "removeEmptyBarLines.batchUpdate"
                        => paragraphs[n].endIndex <= requests[1].startIndex)

\* C26 witness: two paragraphs have been deleted, the one further down
\* first, and the sweep has visited every recorded paragraph.
C26_Witness ==
    /\ pc \notin SweeperPcs
    /\ Len(paragraphs) >= 3
    /\ Visits = Len(paragraphs)
    /\ \E m, n \in 1..Len(log) :
          /\ m < n
          /\ log[m].at = "removeEmptyBarLines.batchUpdate" /\ log[m].ok
          /\ log[n].at = "removeEmptyBarLines.batchUpdate" /\ log[n].ok
          /\ log[m].requests[1].startIndex > log[n].requests[1].startIndex

----------------------------------------------------------------------------
(* What a batch holds *)

Ops(reqs) == {reqs[k].op : k \in 1..Len(reqs)}

BatchesSent == {n \in 1..Len(log) : log[n].call = "batchUpdate"}

\* C27: every batch sent holds requests of one kind only, and a batch with
\* a DeleteRange holds that request alone: no request with absolute offsets
\* shares a batch with a request that moves offsets.
C27_BatchesOfOneKind ==
    \A n \in BatchesSent :
        /\ Cardinality(Ops(log[n].requests)) <= 1
        /\ "deleteContentRange" \in Ops(log[n].requests) => Len(log[n].requests) = 1

\* C27 witness: a run that sent a DeleteRange batch, a batch of several
\* ReplaceText requests and a batch of style requests.
C27_Witness ==
    /\ pc = "done"
    /\ \E n \in BatchesSent : Ops(log[n].requests) = {"deleteContentRange"}
    /\ \E n \in BatchesSent :
          Ops(log[n].requests) = {"replaceAllText"} /\ Len(log[n].requests) > 1
    /\ \E n \in BatchesSent : Ops(log[n].requests) = {"updateTextStyle"}

----------------------------------------------------------------------------
(* replacePlaceholders with either optional argument given or omitted *)

ArgumentLists == { <<>>, << <<HD(1)>> >> }

\* replacePlaceholders(auth, id, data, structuredData?, headingsList?)
InitArguments ==
    \E d \in TemplatesOf(PipelineParas, MaxPipelineParas) :
        \/ \E dat \in PipelineRecords : StartStructured(d, dat, MaxFailures)
        \/ \E dat \in PipelineRecords :
              Start(d, TRUE, dat, flattenStructuredData(dat), NoList, MaxFailures)
        \/ \E hl \in ArgumentLists :
              Start(d, FALSE, NoData, NoFields, hl, MaxFailures)
        \/ Start(d, FALSE, NoData, NoFields, NoList, MaxFailures)

SpecArguments == InitArguments /\ [][Next]_vars

CalledAt(at) == \E n \in 1..Len(log) : log[n].at = at

\* C28: a call of removeEmptySections is made or awaited only in a run given
\* a structured record, and a call of removeEmptyBarLinesOneByOne only in a
\* run given a heading list; a run that has ended normally has read the
\* document in doReplacePlaceholders and in applyBoldMarkers and has sent
\* the batch of removeEmptyMarkers whatever its arguments, has sent the
\* batch of fixCompanyLocationBars if that has any request, and has read the
\* document in removeEmptyBarLinesOneByOne if it was given a heading list
\* (an empty one too).
C28_OptionalStages ==
    /\ (1 \in StagesRun \/ StageOf(pc) = 1) => structured
    /\ (5 \in StagesRun \/ StageOf(pc) = 5) => headingsList # NoList
    /\ pc = "done" =>
          /\ CalledAt("doReplacePlaceholders.get")
          /\ CalledAt("applyBoldMarkers.get")
          /\ CalledAt("removeEmptyMarkers.batchUpdate")
          /\ CalledAt("fixCompanyLocationBars.batchUpdate") <=> fixerRequests(flat) # <<>>
          /\ CalledAt("removeEmptyBarLines.get") <=> headingsList # NoList
          /\ CalledAt("removeSection.get") <=>
                (structured /\ \E j \in 1..NumSections : ~dataCheck(j, data))

\* C28 witness: a run given a structured record and no heading list went
\* through removeEmptySections and the four unconditional stages, not
\* through the sweep.
C28_Witness ==
    /\ pc = "done"
    /\ structured
    /\ headingsList = NoList
    /\ StagesRun = {1, 2, 3, 4, 6}

\* a run given an empty heading list and no structured record: the sweep
\* ran, removeEmptySections did not
C28_ListOnly ==
    /\ pc = "done"
    /\ ~structured
    /\ headingsList = <<>>
    /\ 5 \in StagesRun
    /\ 1 \notin StagesRun

----------------------------------------------------------------------------
(* Structured runs whose values are written with "**" *)

MaxEmphasisParas == 2

EmphasisParas ==
    { Bd(<<LB, KEY("name", 0), RB>>) \o P(<<NL>>),
      P(<<LB, KEY("experience_point", 11), RB, NL>>),
      P(<<LB, KEY("technical_skills", 0), RB, NL>>),
      P(<<LB, KEY("company", 1), RB, SP, LB, KEY("company_location", 1), RB, NL>>),
      P(<<OPEN(1), W(1), CLOSE(1), NL>>),
      P(<<HD(2), NL>>),
      P(<<NL>>) }

EmphasisRecords ==
    { Record(n, <<Experience(<<W(4)>>, <<W(5)>>, <<pt>>)>>, <<>>, OneEducation,
             <<W(2)>>, t) :
        n \in {<<W(2)>>, <<STAR, W(2), STAR, SP, W(3)>>},
        pt \in {<<W(3), SP, STAR, W(3), STAR>>, <<OPEN(2), W(3), CLOSE(2)>>},
        t \in {<<W(2)>>, <<STAR, W(3), STAR>>} }

\* replaceStructuredPlaceholders(auth, id, dat)
InitEmphasis ==
    \E d \in TemplatesOf(EmphasisParas, MaxEmphasisParas), dat \in EmphasisRecords :
        StartStructured(d, dat, MaxFailures)

SpecEmphasis == InitEmphasis /\ [][Next]_vars

\* neither the template nor a field value holds a marker delimiter
NoMarkerAnywhere ==
    /\ structured
    /\ NoDelimiters(doc0)
    /\ \A k \in DOMAIN flat : \A n \in 1..Len(flat[k]) : ~IsDelimiter(flat[k][n])

StyleRequested ==
    \E n \in 1..Len(log) : "updateTextStyle" \in Ops(log[n].requests)

\* every unit of the document has the style of the template unit it came
\* from (of the token's first unit, for a value put in its place)
StylesAsTemplate == \A j \in 1..Len(doc) : doc[j].b = doc0[doc[j].o].b

\* the unit j of the document stands in the place of a skills token
FromSkillsToken(j) ==
    /\ doc0[doc[j].o].t = LB
    /\ doc[j].o < Len(doc0)
    /\ doc0[doc[j].o + 1].t.k \in {"technical_skills", "language_skills"}

\* C29 as stated: in a structured run without marker spans no style request
\* is ever sent, every unit keeps the template's style, and once the
\* substitution batch has succeeded no "**" is in the document.
C29_NoDelimitersNoStyle ==
    NoMarkerAnywhere =>
        /\ ~StyleRequested
        /\ StylesAsTemplate
        /\ ResolverBatchDone => \A j \in 1..Len(doc) : doc[j].t # STAR

\* C29 amended: in a structured run without marker spans no style request
\* is ever sent and every unit keeps the template's style; once the
\* substitution batch has succeeded, the only "**" in the document are
\* those of a technical_skills or language_skills value, which is put in
\* unchanged; the values of the other fields stand without them.
C29_NoStyleStarsOnlyInSkills ==
    NoMarkerAnywhere =>
        /\ ~StyleRequested
        /\ boldRequests = <<>>
        /\ StylesAsTemplate
        /\ ResolverBatchDone =>
              \A j \in 1..Len(doc) : doc[j].t = STAR => FromSkillsToken(j)

\* C29 witness: the name "**w2** w3" stands without its delimiters and bold
\* as its token was in the template; the skills value keeps its delimiters.
C29_Witness ==
    /\ pc = "done"
    /\ NoMarkerAnywhere
    /\ ~StyleRequested
    /\ TextOf(doc0) = <<LB, KEY("name", 0), RB, NL, LB, KEY("technical_skills", 0), RB, NL>>
    /\ flat[KEY("name", 0)] = <<STAR, W(2), STAR, SP, W(3)>>
    /\ TextOf(doc) = <<W(2), SP, W(3), NL, STAR, W(3), STAR, NL>>
    /\ [n \in 1..Len(doc) |-> doc[n].b] =
           <<TRUE, TRUE, TRUE, FALSE, FALSE, FALSE, FALSE, FALSE>>

----------------------------------------------------------------------------
(* The field mapping and the heading list during a run *)

\* section j's heading is in the heading list of the run
Retained(j) ==
    \E n \in 1..Len(headingsList) : headingsList[n] = <<RESUME_SECTIONS[j]>>

\* the reads removeSection has made: one for each section it was called for
PrunerReads ==
    Cardinality({n \in 1..Len(log) : log[n].at = "removeSection.get" /\ log[n].ok})

\* C30: in a run of replaceStructuredPlaceholders the field mapping and the
\* heading list are what flattenStructuredData and buildHeadingsListFromData
\* make of the record, from before the first remote call on, and no step
\* changes them (nor the record); the sections removeSection is called for,
\* each once and in the order of RESUME_SECTIONS, are exactly the sections
\* whose heading is not in the heading list.
C30_FieldsAndHeadingsFixed ==
    /\ [](structured =>
            /\ flat = flattenStructuredData(data)
            /\ headingsList # NoList
            /\ \A j \in 1..NumSections : Retained(j) <=> dataCheck(j, data)
            /\ Len(headingsList) = Cardinality({j \in 1..NumSections : Retained(j)})
            /\ pc \in PrunerPcs => ~Retained(secIdx)
            /\ PrunerFinished => PrunerReads = NumSections - Len(headingsList))
    /\ [][/\ flat' = flat
          /\ headingsList' = headingsList
          /\ data' = data
          /\ structured' = structured
          /\ (pc \in PrunerPcs /\ pc' = "removeSection.get") => secIdx' > secIdx]_vars

\* C30 witness: a run for a record without experience and projects has
\* ended: removeSection was called for these two sections, the sweep ran
\* with the list of the other three.
C30_Witness ==
    /\ pc = "done"
    /\ structured
    /\ headingsList = << <<HD(3)>>, <<HD(4)>>, <<HD(5)>> >>
    /\ PrunerReads = 2
    /\ CalledAt("removeSection.batchUpdate")
    /\ CalledAt("removeEmptyBarLines.get")

----------------------------------------------------------------------------
(* The sweep on bars of every padding *)

MaxBarParas == 3

\* paragraphs holding the glyph alone, padded with one or two spaces on a
\* side, twice, and next to text
BarParas ==
    { P(<<HD(1), NL>>), P(<<NL>>), P(<<BAR, NL>>), P(<<SP, BAR, SP, NL>>),
      P(<<SP, SP, BAR, NL>>), P(<<BAR, SP, SP, NL>>), P(<<BAR, BAR, NL>>),
      P(<<W(1), SP, BAR, NL>>) }

InitBars ==
    \E d \in TemplatesOf(BarParas, MaxBarParas), hl \in ArgumentLists :
        Start(d, FALSE, NoData, NoFields, hl, MaxFailures + 1)

SpecBars == InitBars /\ [][NextSweeper]_vars

\* the paragraph of d starting at s holds white space only, or the glyph
\* and white space around it
BlankOrBar(d, s) ==
    LET glyphs == {j \in s..ParaLast(d, s) : d[j].t = BAR}
    IN  /\ \A j \in s..ParaLast(d, s) : d[j].t \in {BAR, SP, NL}
        /\ Cardinality(glyphs) <= 1

\* d without the paragraph that starts at s
WithoutParagraph(d, s) ==
    LET keepCell(j) == j < s \/ j > ParaLast(d, s)
    IN  Keep(d, keepCell)

\* C31: a delete of the sweep is one DeleteRange of one whole paragraph of
\* the snapshot read just before it (which is the document), and that
\* paragraph is blank or a bar there, so it shows no heading and holds no
\* other text; a sweep step changes the document only by removing that
\* paragraph, whether earlier deletes succeeded or failed.
C31_SweepDeletesOnlyBlankOrBar ==
    /\ [](pc = "removeEmptyBarLines.batchUpdate" =>
            /\ snap = doc
            /\ LastCall = GetCall("removeEmptyBarLines.get2")
            /\ Len(requests) = 1
            /\ requests[1].op = "deleteContentRange"
            /\ IsParagraphAt(snap, requests[1].startIndex, requests[1].endIndex)
            /\ BlankOrBar(snap, requests[1].startIndex)
            /\ HeadingShown(snap, requests[1].startIndex) = 0
            /\ ~IsRetainedHeading(snap, requests[1].startIndex))
    /\ [][(pc \in SweeperPcs /\ doc' # doc) =>
            /\ pc = "removeEmptyBarLines.batchUpdate"
            /\ doc' = WithoutParagraph(doc, requests[1].startIndex)]_vars

\* C31 witness: the bar padded with two spaces at the end was deleted, the
\* delete of the padded bar at the top failed, and the text line between
\* them, which holds the glyph too, is whole.
C31_Witness ==
    /\ pc = "done"
    /\ TextOf(doc0) = <<BAR, SP, SP, NL, W(1), SP, BAR, NL, SP, SP, BAR, NL>>
    /\ TextOf(doc) = <<BAR, SP, SP, NL, W(1), SP, BAR, NL>>
    /\ \E n \in 1..Len(log) : log[n].at = "removeEmptyBarLines.batchUpdate" /\ ~log[n].ok
----------------------------------------------------------------------------
(* What the sweep takes for a bar *)

\* the paragraph holds the glyph once and nothing else but white space
IsPaddedBar(d, s) == BlankOrBar(d, s) /\ ~IsBlankPara(d, s)

\* the visit of the sweep that is about to be made
VisitedStart == paragraphs[idx + 1].startIndex

NextToRetainedHeading(d, s) ==
    AfterRetainedHeading(d, s) \/ BeforeRetainedHeading(d, s)

\* C38 as stated: a visited paragraph that is not blank is deleted exactly
\* when its text without the line terminator is the glyph alone or the glyph
\* with a single space on either side (and it is not next to a retained
\* heading); the glyph padded with two spaces is kept.
C38_BarHasSingleSpaces ==
    [][(pc = "removeEmptyBarLines.get2" /\ pc' # "threw"
            /\ ~IsBlankPara(doc, VisitedStart))
        => (pc' = "removeEmptyBarLines.batchUpdate"
              <=> /\ IsBarPara(doc, VisitedStart)
                  /\ ~NextToRetainedHeading(doc, VisitedStart))]_vars

\* C38 amended: a visited paragraph that is not blank is deleted exactly
\* when its text with the white space at both ends removed is the glyph
\* alone, whatever the number of spaces around it (and it is not next to a
\* retained heading); a paragraph holding two glyphs, or the glyph and other
\* text, is kept.
C38_BarAfterTrim ==
    [][(pc = "removeEmptyBarLines.get2" /\ pc' # "threw"
            /\ ~IsBlankPara(doc, VisitedStart))
        => /\ pc' = "removeEmptyBarLines.batchUpdate"
              <=> /\ IsPaddedBar(doc, VisitedStart)
                  /\ ~NextToRetainedHeading(doc, VisitedStart)
           /\ pc' = "removeEmptyBarLines.batchUpdate"
              => requests' = <<DeleteRange(VisitedStart, ParaLast(doc, VisitedStart) + 1)>>
      ]_vars

\* C38 witness: the bars padded with two spaces and the bare glyph were
\* deleted, the paragraph of two glyphs is all that is left.
C38_Witness ==
    /\ pc = "done" /\ AllCallsOk
    /\ TextOf(doc0) = <<BAR, BAR, NL, SP, SP, BAR, NL, BAR, NL>>
    /\ TextOf(doc) = <<BAR, BAR, NL>>
    /\ Cardinality({n \in 1..Len(log) : log[n].at = "removeEmptyBarLines.batchUpdate"}) = 2
----------------------------------------------------------------------------
(* removeSection on a body whose first block starts at offset 0 *)

MaxZeroParas == 2

\* doc.body.content of a snapshot whose body has no leading section break:
\* the cell at position j has offset j - 1
ContentFromZero(d) ==
    LET ps == SortedSeq(ParaStarts(d))
    IN  [p \in 1..Len(ps) |->
            [kind |-> "paragraph",
             startIndex |-> ps[p] - 1,
             endIndex |-> ParaLast(d, ps[p]),
             elements |-> Paragraph(d, ps[p]).elements]]

\* deleteContentRange on that body
ApplyBatchFromZero(d, reqs) ==
    ApplyBatch(d, [n \in 1..Len(reqs) |->
                      DeleteRange(reqs[n].startIndex + 1, reqs[n].endIndex + 1)])

RemoveSectionGetFromZero ==
    /\ pc = "removeSection.get"
    /\ snap' = doc
    /\ log' = Append(log, GetCall(pc))
    /\ LET reqs == removeSectionRequests(ContentFromZero(doc), <<RESUME_SECTIONS[secIdx]>>)
       IN  /\ requests' = reqs
           /\ IF reqs = <<>>
              THEN /\ pc' = AfterSection(secIdx).pc
                   /\ secIdx' = AfterSection(secIdx).secIdx
              ELSE /\ pc' = "removeSection.batchUpdate"
                   /\ secIdx' = secIdx
    /\ UNCHANGED <<doc, structured, data, flat, headingsList, passCount,
                   boldRequests, chunkAt, paragraphs, idx, failures, budget, doc0, outcome>>
    /\ issued' = issued + Issue(pc')

RemoveSectionBatchOkFromZero ==
    /\ pc = "removeSection.batchUpdate"
    /\ doc' = ApplyBatchFromZero(doc, requests)
    /\ log' = Append(log, BatchCall(pc, requests, TRUE))
    /\ pc' = AfterSection(secIdx).pc
    /\ secIdx' = AfterSection(secIdx).secIdx
    /\ UNCHANGED <<snap, structured, data, flat, headingsList, requests,
                   passCount, boldRequests, chunkAt, paragraphs, idx, failures,
                   budget, doc0, outcome>>
    /\ issued' = issued + Issue(pc')

InitFromZero ==
    \E d \in TemplatesOf(PrunerParas, MaxZeroParas), dat \in PrunerRecords :
        StartStructured(d, dat, MaxFailures)

NextFromZero ==
    \/ RemoveSectionGetFromZero
    \/ RemoveSectionBatchOkFromZero
    \/ RemoveSectionBatchFails
    \/ GetFails

SpecFromZero == InitFromZero /\ [][NextFromZero]_vars

\* C36: every block of the snapshot has both offsets, so when removeSection
\* reads a document in which the absent section's heading is found, it
\* sends the DeleteRange from the heading block's start offset to the
\* boundary block's end offset, also when the heading block starts at
\* offset 0.
C36_HeadingAtZeroIsDeleted ==
    [][(pc = "removeSection.get" /\ pc' # "threw" /\ C9Found(doc, secIdx))
        => /\ pc' = "removeSection.batchUpdate"
           /\ requests' = <<DeleteRange(C9Start(doc, secIdx) - 1, C9End(doc, secIdx) - 1)>>
      ]_vars

\* what the code does instead: the absent section whose heading block
\* starts at offset 0 is left in the document, no request is sent for it
C36_HeadingAtZeroIsLeft ==
    /\ pc = "doReplacePlaceholders.get" /\ AllCallsOk
    /\ TextOf(doc0) = <<HD(1), NL, W(1), NL>>
    /\ ~dataCheck(1, data)
    /\ doc = doc0
    /\ \E n \in 1..Len(log) : log[n].at = "removeSection.get"
    /\ \A n \in 1..Len(log) : log[n].at # "removeSection.batchUpdate"

\* the same section is removed when a paragraph stands above its heading
C36_HeadingBelowIsDeleted ==
    /\ pc = "doReplacePlaceholders.get" /\ AllCallsOk
    /\ TextOf(doc0) = <<W(1), NL, HD(1), NL>>
    /\ ~dataCheck(1, data)
    /\ TextOf(doc) = <<W(1), NL>>
\* at every other offset the request is sent: the range is abandoned for
\* the heading block at offset 0 only
C36_OnlyAtZeroAbandoned ==
    [][(pc = "removeSection.get" /\ pc' # "threw" /\ C9Found(doc, secIdx))
        => IF C9Start(doc, secIdx) - 1 = 0
           THEN pc' # "removeSection.batchUpdate" /\ requests' = <<>>
           ELSE /\ pc' = "removeSection.batchUpdate"
                /\ requests' = <<DeleteRange(C9Start(doc, secIdx) - 1,
                                             C9End(doc, secIdx) - 1)>>
      ]_vars
----------------------------------------------------------------------------
(* The ranges deleted *)

DeletePcs == {"removeSection.batchUpdate", "removeEmptyBarLines.batchUpdate"}

\* the range s..e of d is not empty, starts where a paragraph starts and
\* ends where that paragraph or a later one ends
WholeBlocks(d, s, e) ==
    /\ s < e
    /\ s \in ParaStarts(d)
    /\ \E s2 \in ParaStarts(d) : s2 >= s /\ ParaLast(d, s2) + 1 = e

\* the texts of the paragraphs of d that start at one of the offsets in S,
\* in document order
ParaTexts(d, S) ==
    LET ps == SortedSeq(ParaStarts(d) \cap S)
    IN  [p \in 1..Len(ps) |-> ParaText(d, ps[p])]

\* C32: DeleteRange requests are sent by removeSection and by the sweep
\* only; each one is alone in its batch, computed from the snapshot just
\* read (which is the document), not empty, from the start of a paragraph
\* to the end of the same or a later paragraph; when it succeeds, the
\* paragraphs left are the paragraphs outside the range, each whole.
C32_DeleteRangesAreWholeBlocks ==
    /\ [](/\ \A n \in BatchesSent :
                "deleteContentRange" \in Ops(log[n].requests) => log[n].at \in DeletePcs
          /\ pc \in DeletePcs =>
                /\ snap = doc
                /\ Len(requests) = 1
                /\ requests[1].op = "deleteContentRange"
                /\ WholeBlocks(snap, requests[1].startIndex, requests[1].endIndex))
    /\ [][(pc \in DeletePcs /\ doc' # doc) =>
            /\ Len(doc') = Len(doc) - (requests[1].endIndex - requests[1].startIndex)
            /\ ParaTexts(doc', 1..Len(doc'))
                 = ParaTexts(doc, {j \in 1..Len(doc) :
                                     j < requests[1].startIndex \/ j >= requests[1].endIndex})
      ]_vars

\* C32 witness: removeSection has deleted the absent section's heading
\* block and the sweep has then deleted the blank paragraph above it.
C32_Witness ==
    /\ pc = "done"
    /\ TextOf(doc0) = <<NL, HD(2), NL>>
    /\ doc = <<>>
    /\ \E m, n \in 1..Len(log) :
          /\ log[m] = BatchCall("removeSection.batchUpdate", <<DeleteRange(2, 4)>>, TRUE)
          /\ log[n] = BatchCall("removeEmptyBarLines.batchUpdate", <<DeleteRange(1, 2)>>, TRUE)

\* a section of two blocks goes in one range
C32_SectionOfTwoBlocks ==
    /\ pc = "removeSection.batchUpdate"
    /\ TextOf(doc) = <<HD(1), NL, W(1), NL>>
    /\ requests = <<DeleteRange(1, 5)>>
----------------------------------------------------------------------------
(* The whole pipeline on list bullets without a value *)

MaxBulletParas == 2

\* the paragraphs of the pipeline's templates, and a bullet's slot token
\* whose braces are styled apart from its name (two text runs)
BulletParas ==
    PipelineParas \cup
        { Bd(<<LB>>) \o P(<<KEY("experience_point", 13), RB, NL>>) }

InitBullets ==
    \E d \in TemplatesOf(BulletParas, MaxBulletParas), dat \in PipelineRecords :
        StartStructured(d, dat, MaxFailures)

SpecBullets == InitBullets /\ [][Next]_vars

\* the paragraph of doc0 starting at s is one list-bullet slot token
\* without a value and nothing else
OnlyEmptyBullet(s) == EmptyBullets(s) = {<<s, ParaLast(doc0, s) - 1>>}

\* the places of doc where cells of the paragraph of doc0 starting at s are
Left(s) == {n \in 1..Len(doc) : doc[n].o \in s..ParaLast(doc0, s)}

\* the token of the paragraph of doc0 starting at s lies in one text run
InOneTextRun(s) ==
    \A j \in s..(ParaLast(doc0, s) - 1) : doc0[j].b = doc0[s].b

\* C33: when a run with a heading list has ended with every call
\* succeeding, the document holds no removal marker, and nothing is left of
\* a paragraph that was one list-bullet slot token without a value, unless
\* what is left of it is next to a retained heading.
C33_EmptyBulletLinesGone ==
    (pc = "done" /\ headingsList # NoList /\ AllCallsOk) =>
        /\ \A n \in 1..Len(doc) : doc[n].t # RM
        /\ \A s \in ParaStarts(doc0) :
              OnlyEmptyBullet(s) =>
                 \A n \in Left(s) : NextToRetainedHeading(doc, ParaStartOf(doc, n))

\* the same for the bullets whose token lies in one text run: it holds
C33_OneRunBulletLinesGone ==
    (pc = "done" /\ headingsList # NoList /\ AllCallsOk) =>
        /\ \A n \in 1..Len(doc) : doc[n].t # RM
        /\ \A s \in ParaStarts(doc0) :
              (OnlyEmptyBullet(s) /\ InOneTextRun(s)) =>
                 \A n \in Left(s) :
                    /\ NextToRetainedHeading(doc, ParaStartOf(doc, n))
                    /\ IsBlankPara(doc, ParaStartOf(doc, n))

\* the run in which the bullet line stays: its token, in two text runs,
\* is in the document at the end
C33_SplitBulletStays ==
    /\ pc = "done" /\ headingsList # NoList /\ AllCallsOk
    /\ TextOf(doc0) = <<W(1), NL, LB, KEY("experience_point", 13), RB, NL>>
    /\ doc = doc0

\* a run in which a bullet line in one text run is deleted by the sweep
C33_OneRunBulletGone ==
    /\ pc = "done" /\ headingsList # NoList /\ AllCallsOk
    /\ TextOf(doc0) = <<W(1), NL, LB, KEY("experience_point", 13), RB, NL>>
    /\ TextOf(doc) = <<W(1), NL>>
----------------------------------------------------------------------------
(* doReplacePlaceholders with field values that hold slot tokens *)

NestedParas ==
    { P(<<LB, KEY("name", 0), RB, NL>>),
      P(<<LB, KEY("technical_skills", 0), RB, NL>>),
      P(<<W(1), SP, LB, KEY("name", 0), RB, NL>>),
      P(<<W(1), NL>>) }

\* values that are plain text, or the text of another field's slot token
NestedFields ==
    { Fields(n, Missing, s) :
        n \in {<<W(2)>>, <<LB, KEY("technical_skills", 0), RB>>},
        s \in {<<W(3)>>, <<LB, KEY("name", 0), RB>>, <<W(3), SP, BAR>>} }

InitNested ==
    \E d \in TemplatesOf(NestedParas, MaxResolverParas), fl \in NestedFields :
        Start(d, FALSE, NoData, fl, NoList, MaxFailures)

SpecNested == InitNested /\ [][NextResolver]_vars

\* the slot tokens of doc0, each with its place: <<first, last, token>>
SlotsOfTemplate ==
    UNION { { <<s + p - 1, s + placeholderEnd(ParaText(doc0, s), p) - 1,
                SubSeq(ParaText(doc0, s), p, placeholderEnd(ParaText(doc0, s), p))>> :
                p \in {q \in 1..Len(ParaText(doc0, s)) :
                          placeholderEnd(ParaText(doc0, s), q) # 0} } :
            s \in ParaStarts(doc0) }

ResolverJustDone ==
    Len(log) > 0 /\ LastCall.at = "doReplacePlaceholders.batchUpdate" /\ LastCall.ok

\* no value of the field mapping holds the text of a slot token
NoTokenInValues ==
    \A k \in DOMAIN flat : \A p \in 1..Len(flat[k]) : placeholderEnd(flat[k], p) = 0

\* C37: right after the substitution batch has succeeded, the text in the
\* place of every slot token of the template is that token's own resolved
\* value, also when a field value holds the text of another slot token.
C37_InsertedTextNotRewritten ==
    ResolverJustDone =>
        \A sl \in SlotsOfTemplate : InPlaceOf(sl[1], sl[2]) = Expected(sl[3])

\* the same when no field value holds the text of a slot token: it holds
C37_PlainValuesNotRewritten ==
    (ResolverJustDone /\ NoTokenInValues) =>
        \A sl \in SlotsOfTemplate : InPlaceOf(sl[1], sl[2]) = Expected(sl[3])

\* the run in which inserted text is rewritten: the name is the text
\* "{{technical_skills}}", its token is found first, and the request for
\* {{technical_skills}} then replaces the inserted text as well
C37_Rewritten ==
    /\ ResolverJustDone
    /\ TextOf(doc0) = <<LB, KEY("name", 0), RB, NL, LB, KEY("technical_skills", 0), RB, NL>>
    /\ flat[KEY("name", 0)] = <<LB, KEY("technical_skills", 0), RB>>
    /\ flat[KEY("technical_skills", 0)] = <<W(3)>>
    /\ TextOf(doc) = <<W(3), NL, W(3), NL>>

\* with the tokens found in the other order the inserted text stays
C37_OtherOrderKept ==
    /\ ResolverJustDone
    /\ TextOf(doc0) = <<LB, KEY("technical_skills", 0), RB, NL, LB, KEY("name", 0), RB, NL>>
    /\ flat[KEY("name", 0)] = <<LB, KEY("technical_skills", 0), RB>>
    /\ flat[KEY("technical_skills", 0)] = <<W(3)>>
    /\ TextOf(doc) = <<W(3), NL, LB, KEY("technical_skills", 0), RB, NL>>
----------------------------------------------------------------------------
(* fixCompanyLocationBars where the pair's words occur elsewhere *)

\* an experience whose first point names the company and its location
EchoExperience == <<Experience(<<W(4)>>, <<W(5)>>, << <<W(1), SP, W(4), SP, W(5)>> >>)>>

EchoParas ==
    PipelineParas \cup { P(<<LB, KEY("experience_point", 11), RB, NL>>) }

EchoRecords ==
    PipelineRecords \cup
        { Record(<<W(2)>>, EchoExperience, <<>>, OneEducation, <<W(2)>>, <<W(2)>>) }

InitEcho ==
    \E d \in TemplatesOf(EchoParas, MaxPipelineParas), dat \in EchoRecords :
        StartStructured(d, dat, MaxFailures)

SpecEcho == InitEcho /\ [][Next]_vars

\* the template text "{{a}} {{b}}"
SideBySide(a, b) == <<LB, a, RB, SP, LB, b, RB>>

\* the positions of doc0 where the template printed the values of a pair of
\* fields side by side
PairPlaces ==
    UNION { {j \in 1..Len(doc0) :
                \E p \in 1..Len(doc0) :
                    /\ OccursAt(SideBySide(FixerPairs[n][1], FixerPairs[n][2]),
                                TextOf(doc0), p)
                    /\ p <= j /\ j < p + 7} : n \in 1..Len(FixerPairs) }

\* the paragraphs of d none of whose cells comes from such a place
OtherParagraphs(d) ==
    {s \in ParaStarts(d) : \A j \in s..ParaLast(d, s) : d[j].o \notin PairPlaces}

\* their texts, in document order
OtherTexts(d) ==
    LET ps == SortedSeq(OtherParagraphs(d))
    IN  [p \in 1..Len(ps) |-> ParaText(d, ps[p])]

\* C35: the batch of fixCompanyLocationBars leaves the text of every
\* paragraph that is not a place where the template printed a pair side by
\* side as it was.
C35_FixerTouchesPairsOnly ==
    [][pc = "fixCompanyLocationBars.batchUpdate" => OtherTexts(doc') = OtherTexts(doc)]_vars

\* the same when the text "v1 v2" of no pair occurs in another paragraph
\* before the batch: it holds
C35_FixerTouchesMatchesOnly ==
    [][(pc = "fixCompanyLocationBars.batchUpdate"
            /\ \A k \in 1..Len(requests) : \A p \in 1..Len(OtherTexts(doc)) :
                  ~Includes(OtherTexts(doc)[p], requests[k].text))
        => OtherTexts(doc') = OtherTexts(doc)]_vars

\* the run in which a bullet is rewritten: its value names the company and
\* the location one after the other, and the glyph is put between them
C35_BulletRewritten ==
    /\ pc = "done" /\ AllCallsOk
    /\ TextOf(doc0) = <<LB, KEY("experience_point", 11), RB, NL>>
    /\ TextOf(doc) = <<W(1), SP, W(4), SP, BAR, SP, W(5), NL>>
----------------------------------------------------------------------------
(* replaceStructuredPlaceholders called again on the document it produced *)

\* the calls of replacePlaceholders so far: each reads the document for
\* doReplacePlaceholders once
Runs == Cardinality({n \in 1..Len(log) : log[n].at = "doReplacePlaceholders.get"})

\* a record whose name is the text of the skills line's slot token
TokenNameRecord ==
    Record(<<LB, KEY("technical_skills", 0), RB>>, OneExperience, <<>>,
           OneEducation, <<W(2)>>, <<W(3)>>)

TwiceParas ==
    PipelineParas \cup
        { P(<<LB, KEY("name", 0), RB, NL>>),
          P(<<LB, KEY("technical_skills", 0), RB, NL>>) }

TwiceRecords == PipelineRecords \cup {TokenNameRecord}

\* the caller's second call, with the same record, once the first has
\* ended with every call succeeding; doc0 is the document it starts on
SecondRun ==
    /\ pc = "done"
    /\ Runs = 1
    /\ \A n \in 1..Len(log) : log[n].ok
    /\ doc0' = doc
    /\ pc' = PipelineEntry.pc
    /\ secIdx' = PipelineEntry.secIdx
    /\ snap' = <<>>
    /\ requests' = <<>>
    /\ passCount' = 0
    /\ boldRequests' = <<>>
    /\ chunkAt' = 0
    /\ paragraphs' = <<>>
    /\ idx' = 0
    /\ UNCHANGED <<doc, structured, data, flat, headingsList, failures, budget,
                   log, outcome>>
    /\ issued' = issued + Issue(pc')

\* a template that shows the heading of a section twice, another heading
\* between the two
TwoHeadings ==
    Template(<<P(<<HD(1), NL>>), P(<<HD(2), NL>>), P(<<HD(1), NL>>)>>)

InitTwice ==
    \/ \E d \in TemplatesOf(TwiceParas, MaxPipelineParas), dat \in TwiceRecords :
          StartStructured(d, dat, MaxFailures)
    \/ \E dat \in PipelineRecords : StartStructured(TwoHeadings, dat, MaxFailures)

NextTwice ==
    \/ Next
    \/ SecondRun

SpecTwice == InitTwice /\ [][NextTwice]_vars

\* C34: throughout the second run, and at its end, the document is the one
\* the first run produced: blocks, text and styles.
C34_SecondRunChangesNothing ==
    Runs = 2 => doc = doc0

\* the document the second run starts on shows no heading of an absent
\* section
NoAbsentHeading ==
    \A s \in HeadingStarts(doc0) : dataCheck(HeadingShown(doc0, s), data)

\* the same when no value of the record holds the text of a slot token and
\* the first run left no heading of an absent section: it holds
C34_SecondRunPlainValues ==
    (Runs = 2 /\ NoTokenInValues /\ NoAbsentHeading) => doc = doc0

\* the run in which the second call deletes: the first removed the absent
\* section's first heading only, the second removes the other
C34_SecondRunPrunes ==
    /\ pc = "done" /\ Runs = 2 /\ AllCallsOk
    /\ TextOf(doc0) = <<HD(2), NL, HD(1), NL>>
    /\ TextOf(doc) = <<HD(2), NL>>

\* the run in which the second call rewrites: the first left the name's
\* value "{{technical_skills}}" in the document, the second replaces it
C34_SecondRunRewrites ==
    /\ pc = "done" /\ Runs = 2 /\ AllCallsOk
    /\ TextOf(doc0) = <<W(3), NL, LB, KEY("technical_skills", 0), RB, NL>>
    /\ TextOf(doc) = <<W(3), NL, W(3), NL>>

\* a second run that ends having changed nothing, after a first run that
\* removed a section, substituted, styled and swept
C34_SecondRunNoOp ==
    /\ pc = "done" /\ Runs = 2 /\ AllCallsOk
    /\ doc = doc0
    /\ \E n \in 1..Len(log) : log[n].at = "removeSection.batchUpdate"
    /\ \E n \in 1..Len(log) : log[n].at = "removeEmptyBarLines.batchUpdate"
----------------------------------------------------------------------------
(* The end of a run *)

\* the pipeline's templates and records, and a template of one span more
\* than applyBoldMarkers has passes
InitLong ==
    \/ Init
    \/ Start(ManySpans(MaxPasses + 1), FALSE, NoData, NoFields, NoList, MaxFailuresLong)

SpecLong == InitLong /\ [][Next]_vars

\* every remote call returns, so the continuation of each await runs:
\* WF_vars(Next), written out with Terminated for ENABLED (at every other
\* value of pc the awaited call can succeed)
FairSpecLong ==
    SpecLong /\ ([]<>(pc \in Terminated) \/ []<><<Next>>_vars)

\* the calls made at one place of the code, failed ones included
CallsAt(at) == Cardinality({n \in 1..Len(log) : log[n].at = at})

AbsentSections ==
    IF structured THEN {i \in 1..NumSections : ~dataCheck(i, data)} ELSE {}

\* C39: every run ends, done or thrown.  Until then: removeSection is
\* entered for absent sections only, each once and in increasing order,
\* with one read and at most one delete; the sweep reads once to record
\* the paragraphs, then once per recorded paragraph, and deletes at most
\* once per read; applyBoldMarkers makes at most 50 passes and sends at
\* most 50 stripping batches; the other stages send at most one batch (and
\* doReplacePlaceholders reads once).
C39_PipelineTerminates ==
    /\ [](/\ CallsAt("removeSection.get") <= Cardinality(AbsentSections)
          /\ CallsAt("removeSection.batchUpdate") <= CallsAt("removeSection.get")
          /\ CallsAt("doReplacePlaceholders.get") <= 1
          /\ CallsAt("doReplacePlaceholders.batchUpdate") <= 1
          /\ passCount <= MaxPasses
          /\ CallsAt("applyBoldMarkers.batchUpdate") <= MaxPasses
          /\ CallsAt("removeEmptyMarkers.batchUpdate") <= 1
          /\ CallsAt("removeEmptyBarLines.get") <= 1
          /\ CallsAt("removeEmptyBarLines.get2") <= Len(paragraphs)
          /\ CallsAt("removeEmptyBarLines.batchUpdate") <= CallsAt("removeEmptyBarLines.get2")
          /\ CallsAt("fixCompanyLocationBars.batchUpdate") <= 1
          /\ (pc = "done" /\ SweepRan) =>
                CallsAt("removeEmptyBarLines.get2") = Len(paragraphs))
    /\ [][/\ pc = "removeSection.get" =>
                /\ secIdx \in AbsentSections
                /\ pc' = "removeSection.batchUpdate" => secIdx' = secIdx
          /\ (pc \in PrunerPcs /\ pc' = "removeSection.get") => secIdx' > secIdx
          /\ pc = "removeEmptyBarLines.get" =>
                (pc' = "threw" \/ Len(paragraphs') = Cardinality(ParaStarts(doc)))
         ]_vars
    /\ <>(pc \in {"done", "threw"})

\* C39 witness: the run on 51 spans has ended after 50 passes, each with
\* one stripping batch, the last span still in the document.
C39_Witness ==
    /\ pc = "done"
    /\ passCount = MaxPasses
    /\ CallsAt("applyBoldMarkers.batchUpdate") = MaxPasses
    /\ SpanCount(doc) = 1

\* a run that ended after two reads and two deletes of removeSection, and
\* one whose sweep read once for each of its two paragraphs and deleted one
C39_ShortRun ==
    /\ pc = "done"
    /\ \/ CallsAt("removeSection.get") = 2 /\ CallsAt("removeSection.batchUpdate") = 2
       \/ /\ Len(paragraphs) = 2
          /\ CallsAt("removeEmptyBarLines.get2") = 2
          /\ CallsAt("removeEmptyBarLines.batchUpdate") = 1
====
